---- MODULE Spec2Model ----
(***************************************************************************)
(* Value-codec detection and decoding of the storage manager popup:        *)
(* JsonCodec, LZStringCodec, Base64Codec, UrlCodec and CodecManager        *)
(* (popup/modules/ValueCodec.js), and the popup's edit / save path         *)
(* (popup/popup.js, popup/components/CodeEditor.js, popup/editor.js).      *)
(*                                                                         *)
(* A JavaScript string is a sequence of UTF-16 code units (naturals).      *)
(* A JavaScript value handed to a codec is a record [t, s]: t is the       *)
(* typeof tag ("string", "number", "boolean", "undefined", "object"), s    *)
(* the code units of a string (or, for the other tags, what tells the      *)
(* falsy values from the truthy ones).                                     *)
(***************************************************************************)
EXTENDS Integers, Sequences, FiniteSets, TLC

(***************************************************************************)
(* Characters                                                              *)
(***************************************************************************)
Ascii ==
  << " ", "!", "\"", "#", "$", "%", "&", "'", "(", ")", "*", "+", ",", "-",
     ".", "/", "0", "1", "2", "3", "4", "5", "6", "7", "8", "9", ":", ";",
     "<", "=", ">", "?", "@", "A", "B", "C", "D", "E", "F", "G", "H", "I",
     "J", "K", "L", "M", "N", "O", "P", "Q", "R", "S", "T", "U", "V", "W",
     "X", "Y", "Z", "[", "\\", "]", "^", "_", "backtick", "a", "b", "c", "d", "e",
     "f", "g", "h", "i", "j", "k", "l", "m", "n", "o", "p", "q", "r", "s",
     "t", "u", "v", "w", "x", "y", "z", "{", "|", "}", "~" >>

\* The code unit of a printable ASCII character.
Ord(ch) == 31 + (CHOOSE i \in 1..Len(Ascii) : Ascii[i] = ch)

\* The string spelled by a tuple of one-character strings.
Str(chars) == [i \in 1..Len(chars) |-> Ord(chars[i])]

LBRACE == 123
RBRACE == 125
LBRACK == 91
RBRACK == 93
QUOTE == 34
BACKSLASH == 92
SLASH == 47
COLON == 58
COMMA == 44
MINUS == 45
PLUS == 43
DOT == 46
PERCENT == 37
EQUALS == 61
SPACE == 32
ZERO == 48
NINE == 57
LOWER_A == 97
LOWER_B == 98
LOWER_E == 101
LOWER_F == 102
LOWER_N == 110
LOWER_R == 114
LOWER_T == 116
LOWER_U == 117
LOWER_Z == 122
UPPER_A == 65
UPPER_E == 69
UPPER_F == 70
UPPER_Z == 90
TAB == 9
LF == 10
CR == 13

Digits == ZERO..NINE
UpperAZ == UPPER_A..UPPER_Z
LowerAZ == LOWER_A..LOWER_Z

TRUE_WORD == <<116, 114, 117, 101>>
FALSE_WORD == <<102, 97, 108, 115, 101>>
NULL_WORD == <<110, 117, 108, 108>>

RECURSIVE Repeat(_, _)
Repeat(c, n) == IF n <= 0 THEN <<>> ELSE <<c>> \o Repeat(c, n - 1)

\* s.substring(i-1, j) with 1-based inclusive bounds, clipped to the string.
Sub(s, i, j) == IF i > j \/ i > Len(s) THEN <<>>
                ELSE SubSeq(s, i, IF j > Len(s) THEN Len(s) ELSE j)

\* String.prototype.startsWith / endsWith for a one-character needle.
StartsWithCh(s, c) == Len(s) >= 1 /\ s[1] = c
EndsWithCh(s, c) == Len(s) >= 1 /\ s[Len(s)] = c

\* String.prototype.indexOf(ch) === -1
HasCh(s, c) == \E i \in 1..Len(s) : s[i] = c

\* WhiteSpace and LineTerminator code units, as String.prototype.trim strips.
TrimSet == {9, 10, 11, 12, 13, 32, 160, 5760, 8232, 8233, 8239, 8287, 12288, 65279}
             \cup (8192..8202)

RECURSIVE TrimStart(_)
TrimStart(s) == IF s # <<>> /\ Head(s) \in TrimSet THEN TrimStart(Tail(s)) ELSE s

RECURSIVE TrimEnd(_)
TrimEnd(s) == IF s # <<>> /\ s[Len(s)] \in TrimSet
              THEN TrimEnd(SubSeq(s, 1, Len(s) - 1)) ELSE s

\* String.prototype.trim
Trim(s) == TrimEnd(TrimStart(s))

(***************************************************************************)
(* JSON.parse.  A parsed value is <<kind, payload>>:                       *)
(*   <<"null", <<>>>>, <<"true", <<>>>>, <<"false", <<>>>>,                *)
(*   <<"num", <<>>>> for zero, <<"num", <<sign, n, d1, .., dk>>>> for the  *)
(*   number sign * 0.d1..dk * 10^n (d1 and dk non-zero),                   *)
(*   <<"inf", <<sign>>>> for a literal beyond the double range,            *)
(*   <<"str", code units>>, <<"arr", values>>,                             *)
(*   <<"obj", << <<key, value>>, .. >> >> in own-property order.           *)
(* The sign of zero is not kept (-0 === 0).  A number literal is kept      *)
(* exactly: literals need at most 17 significant digits and no subnormal.  *)
(***************************************************************************)
JWS == {SPACE, TAB, LF, CR}

JNull == <<"null", <<>>>>
NoParse == [ok |-> FALSE, v |-> JNull, i |-> 0]
Parsed(v, i) == [ok |-> TRUE, v |-> v, i |-> i]

RECURSIVE SkipWS(_, _)
SkipWS(s, i) == IF i <= Len(s) /\ s[i] \in JWS THEN SkipWS(s, i + 1) ELSE i

RECURSIVE SkipDigits(_, _)
SkipDigits(s, i) == IF i <= Len(s) /\ s[i] \in Digits THEN SkipDigits(s, i + 1) ELSE i

RECURSIVE StripLeadingZeros(_)
StripLeadingZeros(ds) ==
  IF ds # <<>> /\ Head(ds) = 0 THEN StripLeadingZeros(Tail(ds)) ELSE ds

RECURSIVE StripTrailingZeros(_)
StripTrailingZeros(ds) ==
  IF ds # <<>> /\ ds[Len(ds)] = 0
  THEN StripTrailingZeros(SubSeq(ds, 1, Len(ds) - 1)) ELSE ds

\* The digit values of a run of digit characters.
DigitValues(s) == [i \in 1..Len(s) |-> s[i] - ZERO]

\* The value of an exponent's digits, saturated far beyond the double range.
RECURSIVE ExpValue(_, _)
ExpValue(ds, acc) ==
  IF ds = <<>> THEN acc
  ELSE IF acc > 9999 THEN 99999
  ELSE ExpValue(Tail(ds), acc * 10 + Head(ds))

\* 0.d1..dk >= 0.17976931348623158 : with n = 309 the literal rounds to Infinity.
MaxDoubleDigits == <<1, 7, 9, 7, 6, 9, 3, 1, 3, 4, 8, 6, 2, 3, 1, 5, 8>>

RECURSIVE DigitsGeq(_, _)
DigitsGeq(a, b) ==
  IF b = <<>> THEN TRUE
  ELSE IF a = <<>> THEN FALSE
  ELSE IF Head(a) # Head(b) THEN Head(a) > Head(b)
  ELSE DigitsGeq(Tail(a), Tail(b))

\* The Number a literal denotes: sign, digits before and after the point, exponent.
MakeNumber(sign, intDs, fracDs, exp) ==
  LET all == intDs \o fracDs
      lead == StripLeadingZeros(all)
      ds == StripTrailingZeros(lead)
      n == Len(intDs) - (Len(all) - Len(lead)) + exp
  IN  IF ds = <<>> \/ n < -323 THEN <<"num", <<>>>>
      ELSE IF n > 309 \/ (n = 309 /\ DigitsGeq(ds, MaxDoubleDigits))
           THEN <<"inf", <<sign>>>>
      ELSE <<"num", <<sign, n>> \o ds>>

\* The literal located: integer digits from i1 up to i2, a fraction up to i3,
\* exponent digits from i4 up to i5.
NumberLiteral(s, neg, i1, i2, hasFrac, i3, hasExp, expNeg, i4, i5) ==
  IF i2 = i1 THEN NoParse
  ELSE IF hasFrac /\ i3 = i2 + 1 THEN NoParse
  ELSE IF hasExp /\ i5 = i4 THEN NoParse
  ELSE Parsed(MakeNumber(IF neg THEN -1 ELSE 1,
                         DigitValues(Sub(s, i1, i2 - 1)),
                         IF hasFrac THEN DigitValues(Sub(s, i2 + 1, i3 - 1)) ELSE <<>>,
                         IF hasExp
                         THEN (IF expNeg THEN -1 ELSE 1)
                              * ExpValue(DigitValues(Sub(s, i4, i5 - 1)), 0)
                         ELSE 0), i5)

NumberExponent(s, neg, i1, i2, hasFrac, i3) ==
  LET hasExp == i3 <= Len(s) /\ s[i3] \in {LOWER_E, UPPER_E}
      signed == hasExp /\ i3 + 1 <= Len(s) /\ s[i3 + 1] \in {PLUS, MINUS}
      i4 == IF signed THEN i3 + 2 ELSE i3 + 1
  IN  NumberLiteral(s, neg, i1, i2, hasFrac, i3, hasExp, signed /\ s[i3 + 1] = MINUS,
                    i4, IF hasExp THEN SkipDigits(s, i4) ELSE i3)

NumberFraction(s, neg, i1, i2) ==
  LET hasFrac == i2 <= Len(s) /\ s[i2] = DOT IN
  NumberExponent(s, neg, i1, i2, hasFrac,
                 IF hasFrac THEN SkipDigits(s, i2 + 1) ELSE i2)

ParseNumber(s, i) ==
  LET neg == i <= Len(s) /\ s[i] = MINUS
      i1 == IF neg THEN i + 1 ELSE i
  IN  NumberFraction(s, neg, i1,
                     IF i1 <= Len(s) /\ s[i1] = ZERO THEN i1 + 1 ELSE SkipDigits(s, i1))

HexValue(c) == IF c \in Digits THEN c - ZERO
               ELSE IF c \in LOWER_A..LOWER_F THEN c - LOWER_A + 10
               ELSE IF c \in UPPER_A..UPPER_F THEN c - UPPER_A + 10
               ELSE -1

\* The character or escape at position i of a string literal: <<the code unit
\* it stands for, the number of characters it takes>>, <<-1, 0>> if malformed.
CharAt(s, i) ==
  IF s[i] < 32 THEN <<-1, 0>>
  ELSE IF s[i] # BACKSLASH THEN <<s[i], 1>>
  ELSE IF i + 1 > Len(s) THEN <<-1, 0>>
  ELSE IF s[i + 1] \in {QUOTE, BACKSLASH, SLASH} THEN <<s[i + 1], 2>>
  ELSE IF s[i + 1] = LOWER_B THEN <<8, 2>>
  ELSE IF s[i + 1] = LOWER_F THEN <<12, 2>>
  ELSE IF s[i + 1] = LOWER_N THEN <<LF, 2>>
  ELSE IF s[i + 1] = LOWER_R THEN <<CR, 2>>
  ELSE IF s[i + 1] = LOWER_T THEN <<TAB, 2>>
  ELSE IF s[i + 1] = LOWER_U /\ i + 5 <= Len(s)
          /\ \A k \in 2..5 : HexValue(s[i + k]) >= 0
       THEN <<HexValue(s[i + 2]) * 4096 + HexValue(s[i + 3]) * 256
              + HexValue(s[i + 4]) * 16 + HexValue(s[i + 5]), 6>>
  ELSE <<-1, 0>>

\* The characters of a string literal from position i (after the opening quote).
RECURSIVE ParseChars(_, _, _)
ParseChars(s, i, acc) ==
  LET Rest(c) == IF c[1] < 0 THEN NoParse
                 ELSE ParseChars(s, i + c[2], Append(acc, c[1]))
  IN  IF i > Len(s) THEN NoParse
      ELSE IF s[i] = QUOTE THEN Parsed(<<"str", acc>>, i + 1)
      ELSE Rest(CharAt(s, i))

ParseLiteral(s, i, word, v) ==
  IF Sub(s, i, i + Len(word) - 1) = word THEN Parsed(v, i + Len(word)) ELSE NoParse

\* An array index: a canonical numeric string (such keys are ordered first).
IsIndexKey(k) ==
  /\ Len(k) \in 1..9
  /\ \A i \in 1..Len(k) : k[i] \in Digits
  /\ (Len(k) > 1 => k[1] # ZERO)

RECURSIVE KeyNumber(_, _)
KeyNumber(k, acc) == IF k = <<>> THEN acc ELSE KeyNumber(Tail(k), acc * 10 + Head(k) - ZERO)

\* obj[key] = value on the member list: a repeated key keeps its place and takes
\* the later value; an index key goes before the larger index keys and the names.
RECURSIVE InsertIndexKey(_, _, _)
InsertIndexKey(ms, k, v) ==
  IF ms = <<>> THEN << <<k, v>> >>
  ELSE IF ~IsIndexKey(Head(ms)[1]) \/ KeyNumber(Head(ms)[1], 0) > KeyNumber(k, 0)
       THEN << <<k, v>> >> \o ms
  ELSE <<Head(ms)>> \o InsertIndexKey(Tail(ms), k, v)

ObjPut(ms, k, v) ==
  IF \E j \in 1..Len(ms) : ms[j][1] = k
  THEN [j \in 1..Len(ms) |-> IF ms[j][1] = k THEN <<k, v>> ELSE ms[j]]
  ELSE IF IsIndexKey(k) THEN InsertIndexKey(ms, k, v)
  ELSE Append(ms, <<k, v>>)

RECURSIVE ParseValue(_, _)
RECURSIVE ParseElements(_, _, _)
RECURSIVE ParseMembers(_, _, _)

\* The elements of an array from position i (a value is due at i).
ParseElements(s, i, acc) ==
  LET After(r, j) ==
        IF ~r.ok \/ j > Len(s) THEN NoParse
        ELSE IF s[j] = COMMA THEN ParseElements(s, j + 1, Append(acc, r.v))
        ELSE IF s[j] = RBRACK THEN Parsed(<<"arr", Append(acc, r.v)>>, j + 1)
        ELSE NoParse
      Element(r) == After(r, IF r.ok THEN SkipWS(s, r.i) ELSE 0)
  IN  Element(ParseValue(s, i))

\* The members of an object from position i (a key is due at i, after whitespace).
ParseMembers(s, i, acc) ==
  LET After(r, j, members) ==
        IF ~r.ok \/ j > Len(s) THEN NoParse
        ELSE IF s[j] = COMMA THEN ParseMembers(s, j + 1, members)
        ELSE IF s[j] = RBRACE THEN Parsed(<<"obj", members>>, j + 1)
        ELSE NoParse
      Member(k, r) ==
        After(r, IF r.ok THEN SkipWS(s, r.i) ELSE 0, ObjPut(acc, k.v[2], r.v))
      Colon(k, c) ==
        IF c > Len(s) \/ s[c] # COLON THEN NoParse ELSE Member(k, ParseValue(s, c + 1))
      Key(k) == IF ~k.ok THEN NoParse ELSE Colon(k, SkipWS(s, k.i))
      Due(k0) ==
        Key(IF k0 <= Len(s) /\ s[k0] = QUOTE THEN ParseChars(s, k0 + 1, <<>>) ELSE NoParse)
  IN  Due(SkipWS(s, i))

\* A JSON value from position i0, after optional whitespace.
ParseValue(s, i0) ==
  LET Array(i, j) ==
        IF j <= Len(s) /\ s[j] = RBRACK THEN Parsed(<<"arr", <<>>>>, j + 1)
        ELSE ParseElements(s, i + 1, <<>>)
      Object(i, j) ==
        IF j <= Len(s) /\ s[j] = RBRACE THEN Parsed(<<"obj", <<>>>>, j + 1)
        ELSE ParseMembers(s, i + 1, <<>>)
      At(i) ==
        IF i > Len(s) THEN NoParse
        ELSE IF s[i] = LBRACK THEN Array(i, SkipWS(s, i + 1))
        ELSE IF s[i] = LBRACE THEN Object(i, SkipWS(s, i + 1))
        ELSE IF s[i] = QUOTE THEN ParseChars(s, i + 1, <<>>)
        ELSE IF s[i] = MINUS \/ s[i] \in Digits THEN ParseNumber(s, i)
        ELSE IF s[i] = LOWER_T THEN ParseLiteral(s, i, TRUE_WORD, <<"true", <<>>>>)
        ELSE IF s[i] = LOWER_F THEN ParseLiteral(s, i, FALSE_WORD, <<"false", <<>>>>)
        ELSE IF s[i] = LOWER_N THEN ParseLiteral(s, i, NULL_WORD, JNull)
        ELSE NoParse
  IN  At(SkipWS(s, i0))

\* JSON.parse(text): [ok |-> FALSE] is the SyntaxError.
JSONParse(s) ==
  LET Whole(r) ==
        IF r.ok /\ SkipWS(s, r.i) = Len(s) + 1 THEN [ok |-> TRUE, v |-> r.v]
        ELSE [ok |-> FALSE, v |-> JNull]
  IN  Whole(ParseValue(s, 1))

(***************************************************************************)
(* JSON.stringify(value) and JSON.stringify(value, null, 2)                *)
(***************************************************************************)
RECURSIVE NatToString(_)
NatToString(n) ==
  IF n < 10 THEN <<ZERO + n>> ELSE NatToString(n \div 10) \o <<ZERO + (n % 10)>>

DigitChars(ds) == [i \in 1..Len(ds) |-> ZERO + ds[i]]

\* Number::toString of sign * 0.d1..dk * 10^n.
NumberToString(num) ==
  IF num = <<>> THEN <<ZERO>>
  ELSE LET sign == num[1]
           n == num[2]
           ds == DigitChars(SubSeq(num, 3, Len(num)))
           k == Len(ds)
           e == n - 1
           body ==
             IF k <= n /\ n <= 21 THEN ds \o Repeat(ZERO, n - k)
             ELSE IF 0 < n /\ n <= 21 THEN SubSeq(ds, 1, n) \o <<DOT>> \o SubSeq(ds, n + 1, k)
             ELSE IF -6 < n /\ n <= 0 THEN <<ZERO, DOT>> \o Repeat(ZERO, -n) \o ds
             ELSE (IF k = 1 THEN ds ELSE <<ds[1], DOT>> \o SubSeq(ds, 2, k))
                  \o <<LOWER_E, IF e < 0 THEN MINUS ELSE PLUS>>
                  \o NatToString(IF e < 0 THEN -e ELSE e)
       IN  IF sign < 0 THEN <<MINUS>> \o body ELSE body

HexDigit(n) == IF n < 10 THEN ZERO + n ELSE LOWER_A + n - 10

\* \uXXXX with lower-case hexadecimal digits.
UnicodeEscape(c) ==
  <<BACKSLASH, LOWER_U, HexDigit(c \div 4096), HexDigit((c \div 256) % 16),
    HexDigit((c \div 16) % 16), HexDigit(c % 16)>>

IsLeadSurrogate(c) == c \in 55296..56319
IsTrailSurrogate(c) == c \in 56320..57343

\* The character at position i as QuoteJSONString writes it: <<its text, the
\* number of code units of s it takes>>.
QuotedAt(s, i) ==
  LET c == s[i] IN
  IF c = QUOTE \/ c = BACKSLASH THEN <<<<BACKSLASH, c>>, 1>>
  ELSE IF c = 8 THEN <<<<BACKSLASH, LOWER_B>>, 1>>
  ELSE IF c = 12 THEN <<<<BACKSLASH, LOWER_F>>, 1>>
  ELSE IF c = LF THEN <<<<BACKSLASH, LOWER_N>>, 1>>
  ELSE IF c = CR THEN <<<<BACKSLASH, LOWER_R>>, 1>>
  ELSE IF c = TAB THEN <<<<BACKSLASH, LOWER_T>>, 1>>
  ELSE IF c < 32 THEN <<UnicodeEscape(c), 1>>
  ELSE IF IsLeadSurrogate(c) /\ i < Len(s) /\ IsTrailSurrogate(s[i + 1])
       THEN <<<<c, s[i + 1]>>, 2>>
  ELSE IF IsLeadSurrogate(c) \/ IsTrailSurrogate(c) THEN <<UnicodeEscape(c), 1>>
  ELSE <<<<c>>, 1>>

\* QuoteJSONString, without the enclosing quotes, from position i.
RECURSIVE QuoteChars(_, _)
QuoteChars(s, i) ==
  LET Rest(q) == q[1] \o QuoteChars(s, i + q[2]) IN
  IF i > Len(s) THEN <<>> ELSE Rest(QuotedAt(s, i))

QuoteJSON(s) == <<QUOTE>> \o QuoteChars(s, 1) \o <<QUOTE>>

RECURSIVE Serialize(_, _, _)
RECURSIVE SerializeItems(_, _, _, _)

\* The items of an array or the members of an object, one per line at
\* indentation ind when gap > 0, separated by commas.
SerializeItems(kind, items, gap, ind) ==
  LET one == Head(items)
      name == IF kind = "arr" THEN <<>>
              ELSE QuoteJSON(one[1]) \o <<COLON>> \o (IF gap > 0 THEN <<SPACE>> ELSE <<>>)
      lead == IF gap > 0 THEN <<LF>> \o Repeat(SPACE, ind) ELSE <<>>
  IN  lead \o name \o Serialize(IF kind = "arr" THEN one ELSE one[2], gap, ind)
      \o (IF Len(items) = 1 THEN <<>>
          ELSE <<COMMA>> \o SerializeItems(kind, Tail(items), gap, ind))

\* SerializeJSONProperty with gap spaces per level, at indentation ind.
Serialize(v, gap, ind) ==
  IF v[1] = "null" \/ v[1] = "inf" THEN NULL_WORD
  ELSE IF v[1] = "true" THEN TRUE_WORD
  ELSE IF v[1] = "false" THEN FALSE_WORD
  ELSE IF v[1] = "num" THEN NumberToString(v[2])
  ELSE IF v[1] = "str" THEN QuoteJSON(v[2])
  ELSE LET open == IF v[1] = "arr" THEN LBRACK ELSE LBRACE
           close == IF v[1] = "arr" THEN RBRACK ELSE RBRACE
       IN  IF v[2] = <<>> THEN <<open, close>>
           ELSE <<open>> \o SerializeItems(v[1], v[2], gap, ind + gap)
                \o (IF gap > 0 THEN <<LF>> \o Repeat(SPACE, ind) ELSE <<>>)
                \o <<close>>

\* JSON.stringify(v)
JSONStringify(v) == Serialize(v, 0, 0)

\* JSON.stringify(v, null, 2)
JSONStringifyPretty(v) == Serialize(v, 2, 0)

(***************************************************************************)
(* atob / btoa.  A result is [ok, s]; ok = FALSE is the thrown exception   *)
(* (InvalidCharacterError).                                                *)
(***************************************************************************)
Threw == [ok |-> FALSE, s |-> <<>>]
Returned(s) == [ok |-> TRUE, s |-> s]

AsciiWhitespace == {TAB, LF, 12, CR, SPACE}

RECURSIVE RemoveAll(_, _)
RemoveAll(s, set) ==
  IF s = <<>> THEN <<>>
  ELSE IF Head(s) \in set THEN RemoveAll(Tail(s), set)
  ELSE <<Head(s)>> \o RemoveAll(Tail(s), set)

IsBase64Char(c) == c \in UpperAZ \/ c \in LowerAZ \/ c \in Digits \/ c = PLUS \/ c = SLASH

Base64Value(c) == IF c \in UpperAZ THEN c - UPPER_A
                  ELSE IF c \in LowerAZ THEN c - LOWER_A + 26
                  ELSE IF c \in Digits THEN c - ZERO + 52
                  ELSE IF c = PLUS THEN 62 ELSE 63

Base64Char(v) == IF v < 26 THEN UPPER_A + v
                 ELSE IF v < 52 THEN LOWER_A + v - 26
                 ELSE IF v < 62 THEN ZERO + v - 52
                 ELSE IF v = 62 THEN PLUS ELSE SLASH

\* The number the base64 characters of s spell, six bits each.
RECURSIVE Base64Number(_, _)
Base64Number(s, acc) ==
  IF s = <<>> THEN acc ELSE Base64Number(Tail(s), acc * 64 + Base64Value(Head(s)))

\* The bytes of a group of 2, 3 or 4 base64 characters spelling v.
Base64Group(n, v) ==
  IF n = 2 THEN <<v \div 16>>
  ELSE IF n = 3 THEN <<v \div 1024, (v \div 4) % 256>>
  ELSE <<v \div 65536, (v \div 256) % 256, v % 256>>

\* The bytes of a run of base64 characters whose length is not 1 modulo 4.
RECURSIVE Base64Bytes(_)
Base64Bytes(s) ==
  IF s = <<>> THEN <<>>
  ELSE IF Len(s) <= 4 THEN Base64Group(Len(s), Base64Number(s, 0))
  ELSE Base64Group(4, Base64Number(SubSeq(s, 1, 4), 0)) \o Base64Bytes(SubSeq(s, 5, Len(s)))

\* The data without the one or two = that pad it to a multiple of 4.
Unpadded(d) ==
  IF Len(d) % 4 = 0 /\ Len(d) >= 2 /\ d[Len(d)] = EQUALS /\ d[Len(d) - 1] = EQUALS
  THEN SubSeq(d, 1, Len(d) - 2)
  ELSE IF Len(d) % 4 = 0 /\ Len(d) >= 1 /\ d[Len(d)] = EQUALS
  THEN SubSeq(d, 1, Len(d) - 1)
  ELSE d

Base64Decode(p) ==
  IF Len(p) % 4 = 1 THEN Threw
  ELSE IF \E i \in 1..Len(p) : ~IsBase64Char(p[i]) THEN Threw
  ELSE Returned(Base64Bytes(p))

\* atob(data): forgiving-base64 decode.
Atob(data) == Base64Decode(Unpadded(RemoveAll(data, AsciiWhitespace)))

RECURSIVE Base64Chars(_)
Base64Chars(b) ==
  IF b = <<>> THEN <<>>
  ELSE IF Len(b) = 1
       THEN <<Base64Char(b[1] \div 4), Base64Char((b[1] % 4) * 16), EQUALS, EQUALS>>
  ELSE IF Len(b) = 2
       THEN <<Base64Char(b[1] \div 4), Base64Char((b[1] % 4) * 16 + (b[2] \div 16)),
              Base64Char((b[2] % 16) * 4), EQUALS>>
  ELSE <<Base64Char(b[1] \div 4), Base64Char((b[1] % 4) * 16 + (b[2] \div 16)),
         Base64Char((b[2] % 16) * 4 + (b[3] \div 64)), Base64Char(b[3] % 64)>>
       \o Base64Chars(SubSeq(b, 4, Len(b)))

\* btoa(data): throws on a code unit above U+00FF.
Btoa(data) ==
  IF \E i \in 1..Len(data) : data[i] > 255 THEN Threw ELSE Returned(Base64Chars(data))

(***************************************************************************)
(* decodeURIComponent / encodeURIComponent.  ok = FALSE is the URIError.   *)
(***************************************************************************)
IsHex(c) == HexValue(c) >= 0

\* The octet of the escape %XX at position k, or -1 if there is no escape there.
EscapeAt(s, k) ==
  IF k + 2 <= Len(s) /\ s[k] = PERCENT /\ IsHex(s[k + 1]) /\ IsHex(s[k + 2])
  THEN HexValue(s[k + 1]) * 16 + HexValue(s[k + 2]) ELSE -1

\* The number of octets of the UTF-8 sequence that octet b leads (0: none).
Utf8Length(b) == IF b < 128 THEN 1
                 ELSE IF b \in 192..223 THEN 2
                 ELSE IF b \in 224..239 THEN 3
                 ELSE IF b \in 240..247 THEN 4
                 ELSE 0

\* The code point of octets b (a lead octet and its continuations), or -1
\* if they are no valid UTF-8 encoding of a code point.
Utf8CodePoint(b) ==
  LET n == Len(b)
      cp == IF n = 2 THEN (b[1] % 32) * 64 + (b[2] % 64)
            ELSE IF n = 3 THEN (b[1] % 16) * 4096 + (b[2] % 64) * 64 + (b[3] % 64)
            ELSE (b[1] % 8) * 262144 + (b[2] % 64) * 4096 + (b[3] % 64) * 64 + (b[4] % 64)
  IN  IF \E i \in 2..n : b[i] \notin 128..191 THEN -1
      ELSE IF n = 2 /\ cp < 128 THEN -1
      ELSE IF n = 3 /\ (cp < 2048 \/ cp \in 55296..57343) THEN -1
      ELSE IF n = 4 /\ (cp < 65536 \/ cp > 1114111) THEN -1
      ELSE cp

\* The UTF-16 code units of a code point.
CodeUnits(cp) == IF cp < 65536 THEN <<cp>>
                 ELSE <<55296 + ((cp - 65536) \div 1024), 56320 + ((cp - 65536) % 1024)>>

RECURSIVE UriDecodeFrom(_, _, _)
UriDecodeFrom(s, k, acc) ==
  LET Decoded(n, cp) ==
        IF cp < 0 THEN Threw ELSE UriDecodeFrom(s, k + 3 * n, acc \o CodeUnits(cp))
      Sequence(n, octets) ==
        IF \E j \in 1..n : octets[j] < 0 THEN Threw
        ELSE Decoded(n, Utf8CodePoint(octets))
      Lead(b, n) ==
        IF b < 0 \/ n = 0 THEN Threw
        ELSE IF n = 1 THEN Decoded(1, b)
        ELSE Sequence(n, [j \in 1..n |-> EscapeAt(s, k + 3 * (j - 1))])
      Escape(b) == Lead(b, Utf8Length(b))
  IN  IF k > Len(s) THEN Returned(acc)
      ELSE IF s[k] # PERCENT THEN UriDecodeFrom(s, k + 1, Append(acc, s[k]))
      ELSE Escape(EscapeAt(s, k))

\* decodeURIComponent(s)
DecodeURIComponent(s) == UriDecodeFrom(s, 1, <<>>)

UriUnreserved ==
  UpperAZ \cup LowerAZ \cup Digits
    \cup {MINUS, 95, DOT, 33, 126, 42, 39, 40, 41}    \* - _ . ! ~ * ' ( )

UpperHexDigit(n) == IF n < 10 THEN ZERO + n ELSE UPPER_A + n - 10

PercentEscape(b) == <<PERCENT, UpperHexDigit(b \div 16), UpperHexDigit(b % 16)>>

\* The escapes of the UTF-8 encoding of a code point.
Utf8Escapes(cp) ==
  IF cp < 128 THEN PercentEscape(cp)
  ELSE IF cp < 2048 THEN PercentEscape(192 + (cp \div 64)) \o PercentEscape(128 + (cp % 64))
  ELSE IF cp < 65536
       THEN PercentEscape(224 + (cp \div 4096)) \o PercentEscape(128 + ((cp \div 64) % 64))
            \o PercentEscape(128 + (cp % 64))
  ELSE PercentEscape(240 + (cp \div 262144)) \o PercentEscape(128 + ((cp \div 4096) % 64))
       \o PercentEscape(128 + ((cp \div 64) % 64)) \o PercentEscape(128 + (cp % 64))

\* The code point at position k of s: <<the code point, the number of code
\* units it takes>>, <<-1, 0>> at a lone surrogate.
CodePointAt(s, k) ==
  IF IsTrailSurrogate(s[k]) THEN <<-1, 0>>
  ELSE IF ~IsLeadSurrogate(s[k]) THEN <<s[k], 1>>
  ELSE IF k + 1 > Len(s) \/ ~IsTrailSurrogate(s[k + 1]) THEN <<-1, 0>>
  ELSE <<(s[k] - 55296) * 1024 + (s[k + 1] - 56320) + 65536, 2>>

RECURSIVE UriEncodeFrom(_, _, _)
UriEncodeFrom(s, k, acc) ==
  LET Escaped(c) == IF c[1] < 0 THEN Threw
                    ELSE UriEncodeFrom(s, k + c[2], acc \o Utf8Escapes(c[1]))
  IN  IF k > Len(s) THEN Returned(acc)
      ELSE IF s[k] \in UriUnreserved THEN UriEncodeFrom(s, k + 1, Append(acc, s[k]))
      ELSE Escaped(CodePointAt(s, k))

\* encodeURIComponent(s)
EncodeURIComponent(s) == UriEncodeFrom(s, 1, <<>>)

(***************************************************************************)
(* JavaScript values handed to the codecs                                  *)
(***************************************************************************)
JSString(s) == [t |-> "string", s |-> s]
JSNull == [t |-> "object", s |-> <<>>]
JSUndefined == [t |-> "undefined", s |-> <<>>]
JSNumber(n) == [t |-> "number", s |-> <<n>>]
JSBoolean(b) == [t |-> "boolean", s |-> IF b THEN <<1>> ELSE <<0>>]
JSArray == [t |-> "object", s |-> <<1>>]

\* ToBoolean: "", null, undefined, 0 and false are falsy.
Truthy(v) == IF v.t = "string" THEN v.s # <<>> ELSE v.s \notin {<<>>, <<0>>}

IsString(v) == v.t = "string"

VARIABLES
  codecs,     \* CodecManager.codecs: the registered codecs, by name, in order
  val,        \* the stored value the calls are made on (item.value)
  lz,         \* what the LZString library does with val, per entry point
  call,       \* the last call made on the registry or on a codec, and its outcome
  detected,   \* the results the detect calls have returned so far
  edit,       \* the editor window opened by onEdit and its save callback
  events,     \* the last EDITOR_SAVE message received and what the popup did
              \* on it, in order: storage write, alert() dialog, response
  origin,     \* the text LZStringCodec.encode compressed into val, if val is
              \* what it returned: <<text>>, and <<>> for any other value
  worker,     \* the codec worker: the last message its onmessage handled and
              \* the messages the handler posted back
  codecWorker,\* popup.js codecWorker: "null" before getCodecWorker created the
              \* worker, then whether the worker script loaded or failed to
  listeners,  \* the handleMsg listeners registered on the worker for 'message',
              \* in the order added, each named by the onEdit run it belongs to
  inbox,      \* the requests posted to the worker that it has not handled yet
  outbox,     \* the replies the worker posted that the popup has not
              \* dispatched yet
  tasks       \* the runs of onEdit so far: item, detected codec, the promise of
              \* decodeAsync and the text handed to editor.open

vars == <<codecs, val, lz, call, detected, edit, events, origin, worker,
          codecWorker, listeners, inbox, outbox, tasks>>

(***************************************************************************)
(* The LZString library (lib/lz-string.js).  Its decompressors are entry   *)
(* points of a library outside the codec module: lz records, for the value *)
(* under inspection, what each returns (a string, null) or that it throws. *)
(***************************************************************************)
LZMethods == <<"decompressFromUTF16", "decompressFromBase64",
               "decompressFromEncodedURIComponent", "decompress">>

LZThrew == [ok |-> FALSE, r |-> JSNull]
LZReturned(v) == [ok |-> TRUE, r |-> v]

\* LZString[method](v), for the value under inspection.
LZString(method, v) == lz[method]

\* The character LZStringCodec.canDecode takes for the mark of compressToUTF16.
LZ_SIGNATURE == 7137

\* compressToUTF16 of a text starting with {": the first character is U+1BE1
LZ_COMPRESSED == <<LZ_SIGNATURE, 2091, 1632, 9234, 32>>
\* compressToUTF16 of the text {}: three characters, the first not U+1BE1
LZ_SHORT == <<7138, 31904, 32>>
\* compressToUTF16 of the text [1,2]: the first character not U+1BE1
LZ_UNSIGNED == <<7010, 6189, 184, 3012, 32, 32>>

\* The shape of LZString.compressToUTF16(t).  The compressor writes the first
\* character of t and the low bits of the second into its first output
\* character, which is U+1BE1 for a text starting with {" and another
\* character for {} and for a text starting with [; a text of one or two
\* characters compresses to two or three.
Compressed(t) ==
  IF Len(t) >= 3 /\ t[1] = LBRACE /\ t[2] = QUOTE THEN LZ_COMPRESSED
  ELSE IF Len(t) <= 2 THEN LZ_SHORT
  ELSE LZ_UNSIGNED

\* LZString.compressToUTF16(s): lz says whether it throws.
LZCompressToUTF16(s) ==
  IF lz["compressToUTF16"].ok THEN LZReturned(JSString(Compressed(s)))
  ELSE lz["compressToUTF16"]

(***************************************************************************)
(* JsonCodec                                                               *)
(***************************************************************************)
\* The checks of canDecode on the text s.
JsonCodec_test(s) ==
  IF (~StartsWithCh(s, LBRACE) /\ ~StartsWithCh(s, LBRACK))
       \/ (~EndsWithCh(s, RBRACE) /\ ~EndsWithCh(s, RBRACK))
  THEN 0
  ELSE IF JSONParse(s).ok THEN 100 ELSE 0

\* canDecode without val = val.trim().
JsonCodec_canDecode_untrimmed(v) ==
  IF ~IsString(v) THEN 0 ELSE JsonCodec_test(v.s)

JsonCodec_canDecode(v) ==
  IF ~IsString(v) THEN 0 ELSE JsonCodec_test(Trim(v.s))

\* try { return JSON.stringify(JSON.parse(val)) } catch (e) { return val }
MinifiedOrSame(s) ==
  LET Result(p) == IF p.ok THEN JSONStringify(p.v) ELSE s IN Result(JSONParse(s))

\* try { return JSON.stringify(JSON.parse(val), null, 2) } catch (e) { return val }
PrettyOrSame(s) ==
  LET Result(p) == IF p.ok THEN JSONStringifyPretty(p.v) ELSE s IN Result(JSONParse(s))

JsonCodec_decode(s) == Returned(PrettyOrSame(s))

JsonCodec_encode(s) == Returned(MinifiedOrSame(s))

(***************************************************************************)
(* The meaningful-text checks                                              *)
(***************************************************************************)
IsPrintable(code) == (code >= 32 /\ code <= 126) \/ code = 10 \/ code = 13 \/ code = 9

Printable(s) == Cardinality({i \in 1..Len(s) : IsPrintable(s[i])})

\* A text check that accepts at 95%: (printable / str.length) >= 0.95
LZStringCodec_isMeaningfulText_atLeast(s) ==
  IF s = <<>> \/ Len(s) < 2 THEN FALSE ELSE 100 * Printable(s) >= 95 * Len(s)

\* LZStringCodec.isMeaningfulText: (printable / str.length) > 0.95
LZStringCodec_isMeaningfulText(s) ==
  IF s = <<>> \/ Len(s) < 2 THEN FALSE ELSE 100 * Printable(s) > 95 * Len(s)

\* A text check that accepts at 90%: (printable / str.length) >= 0.9
Base64Codec_isMeaningfulText_atLeast(s) ==
  IF s = <<>> THEN FALSE ELSE 10 * Printable(s) >= 9 * Len(s)

\* Base64Codec.isMeaningfulText: (printable / str.length) > 0.9
Base64Codec_isMeaningfulText(s) ==
  IF s = <<>> THEN FALSE ELSE 10 * Printable(s) > 9 * Len(s)

\* UrlCodec.isMeaningfulText: (printable / str.length) > 0.9
UrlCodec_isMeaningfulText(s) ==
  IF s = <<>> THEN FALSE ELSE 10 * Printable(s) > 9 * Len(s)

(***************************************************************************)
(* LZStringCodec                                                           *)
(***************************************************************************)
\* safeDecompress: a throw of the library becomes null.
LZStringCodec_safeDecompress(v, method) ==
  LET Result(r) == IF r.ok THEN r.r ELSE JSNull IN Result(LZString(method, v))

\* A loop over the candidates that applies the ratio heuristic to strings of
\* any length.
RECURSIVE LZStringCodec_pick_anyLength(_, _)
LZStringCodec_pick_anyLength(results, v) ==
  LET Candidate(format, decompressed) ==
        IF JSONParse(decompressed).ok THEN 100
        ELSE IF (10 * Len(decompressed) > 11 * Len(v.s)
                  \/ (format \in {"UTF16", "Generic"}
                        /\ 2 * Len(decompressed) > Len(v.s)))
                /\ LZStringCodec_isMeaningfulText(decompressed)
             THEN 85
        ELSE LZStringCodec_pick_anyLength(Tail(results), v)
  IN  IF results = <<>> THEN 0
      ELSE Candidate(Head(results).format, Head(results).decoded.s)

\* The loop over the surviving candidates of canDecode.
RECURSIVE LZStringCodec_pick(_, _)
LZStringCodec_pick(results, v) ==
  LET Candidate(format, decompressed) ==
        IF JSONParse(decompressed).ok THEN 100
        ELSE IF Len(v.s) >= 20
                /\ (10 * Len(decompressed) > 11 * Len(v.s)
                     \/ (format \in {"UTF16", "Generic"}
                           /\ 2 * Len(decompressed) > Len(v.s)))
                /\ LZStringCodec_isMeaningfulText(decompressed)
             THEN 85
        ELSE LZStringCodec_pick(Tail(results), v)
  IN  IF results = <<>> THEN 0
      ELSE Candidate(Head(results).format, Head(results).decoded.s)

\* canDecode without the signature test.
LZStringCodec_canDecode_noFastPath(v) ==
  LET Keep(r) == Truthy(r.decoded) /\ r.decoded # v /\ Len(r.decoded.s) > 0 IN
  IF ~IsString(v) \/ Len(v.s) < 4 THEN 0
  ELSE LZStringCodec_pick(
         SelectSeq(
           << [format |-> "UTF16",
               decoded |-> LZStringCodec_safeDecompress(v, "decompressFromUTF16")],
              [format |-> "Base64",
               decoded |-> LZStringCodec_safeDecompress(v, "decompressFromBase64")],
              [format |-> "URI",
               decoded |-> LZStringCodec_safeDecompress(v, "decompressFromEncodedURIComponent")],
              [format |-> "Generic",
               decoded |-> LZStringCodec_safeDecompress(v, "decompress")] >>, Keep), v)

\* The entry points of the library canDecode calls on v, in order: none
\* before the length gate and the signature test have let v through.
LZStringCodec_decompressions(v) ==
  IF ~IsString(v) \/ Len(v.s) < 4 THEN <<>>
  ELSE IF StartsWithCh(v.s, LZ_SIGNATURE) THEN <<>>
  ELSE LZMethods

LZStringCodec_canDecode(v) ==
  LET Keep(r) == Truthy(r.decoded) /\ r.decoded # v /\ Len(r.decoded.s) > 0 IN
  IF ~IsString(v) \/ Len(v.s) < 4 THEN 0
  ELSE IF StartsWithCh(v.s, LZ_SIGNATURE) THEN 95
  ELSE LZStringCodec_pick(
         SelectSeq(
           << [format |-> "UTF16",
               decoded |-> LZStringCodec_safeDecompress(v, "decompressFromUTF16")],
              [format |-> "Base64",
               decoded |-> LZStringCodec_safeDecompress(v, "decompressFromBase64")],
              [format |-> "URI",
               decoded |-> LZStringCodec_safeDecompress(v, "decompressFromEncodedURIComponent")],
              [format |-> "Generic",
               decoded |-> LZStringCodec_safeDecompress(v, "decompress")] >>, Keep), v)

\* A decode loop that goes through the methods from the last to the first.
RECURSIVE LZStringCodec_decodeFrom_lastFirst(_, _)
LZStringCodec_decodeFrom_lastFirst(s, i) ==
  LET Text(decompressed, p) ==
        IF p.ok THEN Returned(JSONStringifyPretty(p.v))
        ELSE IF LZStringCodec_isMeaningfulText(decompressed) THEN Returned(decompressed)
        ELSE LZStringCodec_decodeFrom_lastFirst(s, i + 1)
      Method(r) ==
        IF r.ok /\ Truthy(r.r) /\ r.r # JSString(s)
        THEN Text(r.r.s, JSONParse(r.r.s))
        ELSE LZStringCodec_decodeFrom_lastFirst(s, i + 1)
  IN  IF i > Len(LZMethods) THEN Returned(s)
      ELSE Method(LZString(LZMethods[Len(LZMethods) + 1 - i], JSString(s)))

\* A decode loop that returns the decompressed text as the library gave it.
RECURSIVE LZStringCodec_decodeFrom_raw(_, _)
LZStringCodec_decodeFrom_raw(s, i) ==
  LET Method(r) ==
        IF r.ok /\ Truthy(r.r) /\ r.r # JSString(s)
        THEN Returned(r.r.s)
        ELSE LZStringCodec_decodeFrom_raw(s, i + 1)
  IN  IF i > Len(LZMethods) THEN Returned(s)
      ELSE Method(LZString(LZMethods[i], JSString(s)))

\* The loop of decode over the methods from the i-th on.
RECURSIVE LZStringCodec_decodeFrom(_, _)
LZStringCodec_decodeFrom(s, i) ==
  LET Text(decompressed, p) ==
        IF p.ok THEN Returned(JSONStringifyPretty(p.v))
        ELSE IF LZStringCodec_isMeaningfulText(decompressed) THEN Returned(decompressed)
        ELSE LZStringCodec_decodeFrom(s, i + 1)
      Method(r) ==
        IF r.ok /\ Truthy(r.r) /\ r.r # JSString(s)
        THEN Text(r.r.s, JSONParse(r.r.s))
        ELSE LZStringCodec_decodeFrom(s, i + 1)
  IN  IF i > Len(LZMethods) THEN Returned(s)
      ELSE Method(LZString(LZMethods[i], JSString(s)))

LZStringCodec_decode(s) == LZStringCodec_decodeFrom(s, 1)

LZStringCodec_encode(s) ==
  LET Result(r) == IF r.ok THEN Returned(r.r.s) ELSE Threw IN
  Result(LZCompressToUTF16(MinifiedOrSame(s)))

(***************************************************************************)
(* Base64Codec                                                             *)
(***************************************************************************)
\* /^[A-Za-z0-9+/]*={0,2}$/.test(val)
Base64Codec_regex(s) ==
  \E k \in 0..2 :
    /\ k <= Len(s)
    /\ \A i \in 1..Len(s) : IF i <= Len(s) - k THEN IsBase64Char(s[i]) ELSE s[i] = EQUALS

\* The checks of canDecode with the text check ahead of the JSON check.
Base64Codec_test_textFirst(decoded) ==
  IF ~decoded.ok THEN 0
  ELSE IF Base64Codec_isMeaningfulText(decoded.s) THEN 80
  ELSE IF JSONParse(decoded.s).ok THEN 100
  ELSE 0

\* The checks of canDecode on what atob made of the value.
Base64Codec_test(decoded) ==
  IF ~decoded.ok THEN 0
  ELSE IF JSONParse(decoded.s).ok THEN 100
  ELSE IF Base64Codec_isMeaningfulText(decoded.s) THEN 80
  ELSE 0

\* canDecode with the length gate at 3.
Base64Codec_canDecode_gate3(v) ==
  IF ~IsString(v) \/ Len(v.s) < 3 THEN 0
  ELSE IF ~Base64Codec_regex(v.s) THEN 0
  ELSE Base64Codec_test(Atob(v.s))

Base64Codec_canDecode(v) ==
  IF ~IsString(v) \/ Len(v.s) < 4 THEN 0
  ELSE IF ~Base64Codec_regex(v.s) THEN 0
  ELSE Base64Codec_test(Atob(v.s))

\* decode without the try around atob.
Base64Codec_decode_uncaught(s) ==
  LET Result(decoded) ==
        IF decoded.ok THEN Returned(PrettyOrSame(decoded.s)) ELSE Threw
  IN  Result(Atob(s))

Base64Codec_decode(s) ==
  LET Result(decoded) ==
        IF decoded.ok THEN Returned(PrettyOrSame(decoded.s)) ELSE Returned(s)
  IN  Result(Atob(s))

Base64Codec_encode(s) == Btoa(MinifiedOrSame(s))

(***************************************************************************)
(* UrlCodec                                                                *)
(***************************************************************************)
\* The checks of canDecode with the text check ahead of the JSON check.
UrlCodec_test_textFirst(v, decoded) ==
  IF ~decoded.ok THEN 0
  ELSE IF decoded.s = v.s THEN 0
  ELSE IF UrlCodec_isMeaningfulText(decoded.s) THEN 70
  ELSE IF JSONParse(decoded.s).ok THEN 100
  ELSE 0

\* The checks of canDecode on what decodeURIComponent made of the value.
UrlCodec_test(v, decoded) ==
  IF ~decoded.ok THEN 0
  ELSE IF decoded.s = v.s THEN 0
  ELSE IF JSONParse(decoded.s).ok THEN 100
  ELSE IF UrlCodec_isMeaningfulText(decoded.s) THEN 70
  ELSE 0

\* val.trim() starts with { or [
UrlCodec_looksLikeJson(trimmed) ==
  StartsWithCh(trimmed, LBRACE) \/ StartsWithCh(trimmed, LBRACK)

\* canDecode without the test of the first character.
UrlCodec_canDecode_noExclusion(v) ==
  IF ~IsString(v) \/ Len(v.s) = 0 THEN 0
  ELSE IF ~HasCh(v.s, PERCENT) THEN 0
  ELSE UrlCodec_test(v, DecodeURIComponent(v.s))

UrlCodec_canDecode(v) ==
  IF ~IsString(v) \/ Len(v.s) = 0 THEN 0
  ELSE IF ~HasCh(v.s, PERCENT) THEN 0
  ELSE IF UrlCodec_looksLikeJson(Trim(v.s)) THEN 0
  ELSE UrlCodec_test(v, DecodeURIComponent(v.s))

UrlCodec_decode(s) ==
  LET Result(decoded) ==
        IF decoded.ok THEN Returned(PrettyOrSame(decoded.s)) ELSE Returned(s)
  IN  Result(DecodeURIComponent(s))

UrlCodec_encode(s) == EncodeURIComponent(MinifiedOrSame(s))

(***************************************************************************)
(* Dispatch on a registered codec                                          *)
(***************************************************************************)
CodecNames == <<"json", "lzstring", "base64", "url">>

canDecode(codec, v) ==
  CASE codec = "json" -> JsonCodec_canDecode(v)
    [] codec = "lzstring" -> LZStringCodec_canDecode(v)
    [] codec = "base64" -> Base64Codec_canDecode(v)
    [] codec = "url" -> UrlCodec_canDecode(v)

decode(codec, s) ==
  CASE codec = "json" -> JsonCodec_decode(s)
    [] codec = "lzstring" -> LZStringCodec_decode(s)
    [] codec = "base64" -> Base64Codec_decode(s)
    [] codec = "url" -> UrlCodec_decode(s)

encode(codec, s) ==
  CASE codec = "json" -> JsonCodec_encode(s)
    [] codec = "lzstring" -> LZStringCodec_encode(s)
    [] codec = "base64" -> Base64Codec_encode(s)
    [] codec = "url" -> UrlCodec_encode(s)

(***************************************************************************)
(* CodecManager                                                            *)
(***************************************************************************)
\* constructor: this.codecs = [JsonCodec, LZStringCodec, Base64Codec, UrlCodec]
CodecManager_constructor == CodecNames

\* One canDecode evaluation of a detect call.
Scored(codec, score, pass) == [codec |-> codec, score |-> score, pass |-> pass]

\* A second pass that asks for a maximum of 75.
RECURSIVE CodecManager_secondPass_min75(_, _, _, _, _)
CodecManager_secondPass_min75(cs, v, bestCodec, maxScore, trace) ==
  LET Step(score) ==
        CodecManager_secondPass_min75(
          Tail(cs), v,
          IF score > maxScore THEN Head(cs) ELSE bestCodec,
          IF score > maxScore THEN score ELSE maxScore,
          Append(trace, Scored(Head(cs), score, 2)))
  IN  IF cs = <<>>
      THEN [ret |-> IF maxScore >= 75 THEN bestCodec ELSE "null", trace |-> trace]
      ELSE Step(canDecode(Head(cs), v))

\* The second pass over the codecs cs still to score.
RECURSIVE CodecManager_secondPass(_, _, _, _, _)
CodecManager_secondPass(cs, v, bestCodec, maxScore, trace) ==
  LET Step(score) ==
        CodecManager_secondPass(
          Tail(cs), v,
          IF score > maxScore THEN Head(cs) ELSE bestCodec,
          IF score > maxScore THEN score ELSE maxScore,
          Append(trace, Scored(Head(cs), score, 2)))
  IN  IF cs = <<>>
      THEN [ret |-> IF maxScore >= 50 THEN bestCodec ELSE "null", trace |-> trace]
      ELSE Step(canDecode(Head(cs), v))

\* A first pass that returns at the first score of 80 or more.
RECURSIVE CodecManager_firstPass_min80(_, _, _)
CodecManager_firstPass_min80(cs, v, trace) ==
  LET Step(score, seen) ==
        IF score >= 80 THEN [ret |-> Head(cs), trace |-> seen]
        ELSE CodecManager_firstPass_min80(Tail(cs), v, seen)
      Score(score) == Step(score, Append(trace, Scored(Head(cs), score, 1)))
  IN  IF cs = <<>> THEN CodecManager_secondPass(codecs, v, "null", 0, trace)
      ELSE Score(canDecode(Head(cs), v))

\* A first pass that scores every codec before it returns the first one that
\* scored 90 or more.
RECURSIVE CodecManager_firstPass_scoreAll(_, _, _)
CodecManager_firstPass_scoreAll(cs, v, trace) ==
  LET Certain(e) == e.score >= 90
      First(hits) ==
        IF hits # <<>> THEN [ret |-> Head(hits).codec, trace |-> trace]
        ELSE CodecManager_secondPass(codecs, v, "null", 0, trace)
  IN  IF cs = <<>> THEN First(SelectSeq(trace, Certain))
      ELSE CodecManager_firstPass_scoreAll(
             Tail(cs), v, Append(trace, Scored(Head(cs), canDecode(Head(cs), v), 1)))

\* The first pass over the codecs cs still to score.
RECURSIVE CodecManager_firstPass(_, _, _)
CodecManager_firstPass(cs, v, trace) ==
  LET Step(score, seen) ==
        IF score >= 90 THEN [ret |-> Head(cs), trace |-> seen]
        ELSE CodecManager_firstPass(Tail(cs), v, seen)
      Score(score) == Step(score, Append(trace, Scored(Head(cs), score, 1)))
  IN  IF cs = <<>> THEN CodecManager_secondPass(codecs, v, "null", 0, trace)
      ELSE Score(canDecode(Head(cs), v))

\* The guard without val.length < 2.
CodecManager_guard_noLength(v) == ~Truthy(v) \/ ~IsString(v)

\* if (!val || typeof val !== 'string' || val.length < 2) return null
CodecManager_guard(v) == ~Truthy(v) \/ ~IsString(v) \/ Len(v.s) < 2

\* detect(val): the codec returned ("null" for null) and the canDecode
\* evaluations made, in order.
CodecManager_detect(v) ==
  IF CodecManager_guard(v) THEN [ret |-> "null", trace |-> <<>>]
  ELSE CodecManager_firstPass(codecs, v, <<>>)

(***************************************************************************)
(* The values of the model                                                 *)
(***************************************************************************)
MaxLen == 3

Alphabet == {LBRACK, RBRACK, Ord("2"), PERCENT, SPACE}

\* Every string over Alphabet of at most n characters.
StringsUpTo(n) == UNION {[1..k -> Alphabet] : k \in 0..n}

EURO == <<8364>>

\* Stored values met in practice: JSON documents, Base64 and percent-encoded
\* texts, number literals, plain text, text with characters outside Latin-1.
Corpus ==
  { Str(<<"{", "\"", "a", "\"", ":", "1", ",", "\"", "b", "\"", ":", "[", "2", ",", "3", "]", "}">>),
    Str(<<"{", "\"", "h", "p", "\"", ":", "1", "0", "0", "}">>),
    Str(<<"{", "\"", "b", "\"", ":", "1", ",", "\"", "1", "\"", ":", "2", ",", "\"", "b", "\"", ":", "3", "}">>),
    Str(<<"{", "\"", "u", "\"", ":", "\"", "a", "%", "3", "A", "b", "\"", "}">>),
    Str(<<"[", "1", ".", "5", "0", ",", "1", "e", "2", ",", "-", "0", "]">>),
    Str(<<"[", "1", "e", "9", "9", "9", "]">>),
    Str(<<"2", "e", "3", "0", "8">>),
    Str(<<"1", "e", "3", "0", "8">>),
    Str(<<"[", "t", "r", "u", "e", ",", "n", "u", "l", "l", "]">>),
    Str(<<"[", "\"", "\\", "n", "\"", "]">>),
    <<160>> \o Str(<<"[", "]">>),
    <<11>> \o Str(<<"{", "}">>) \o <<LF>>,
    Str(<<"[", "1", ",", "]">>),
    Str(<<"\"", "a", "b", "\"">>),
    Str(<<"t", "r", "u", "e">>),
    Str(<<"1", "2", "3", "4">>),
    Str(<<"a", "b">>),
    Str(<<"a">>),
    Str(<<"a", "G", "V", "s", "b", "G", "8", "g", "d", "2", "9", "y", "b", "G", "Q", "=">>),
    Str(<<"a", "G", "V", "s", "b", "G", "8", "g", "d", "2", "9", "y", "b", "G", "Q", "h", "I", "S", "E", "h">>),
    Str(<<"W", "1", "0", "=">>),
    Str(<<"e", "3", "0", "=">>),
    Str(<<"M", "T", "I", "z">>),
    Str(<<"Y", "W", "I">>),
    Str(<<"M", "Q">>),
    Str(<<"a", "b", "c", "d", "e", "=">>),
    Str(<<"/", "/", "/", "/">>),
    Str(<<"a", "b", "c", "d">>),
    Str(<<"f", "o", "o", "%", "2", "0", "b", "a", "r", "%", "2", "0", "b", "a", "z">>),
    Str(<<"%", "5", "B", "%", "5", "D">>),
    Str(<<"%", "7", "B", "%", "2", "2", "h", "p", "%", "2", "2", "%", "3", "A", "1", "0", "0", "%", "7", "D">>),
    Str(<<"%", "2", "0">>),
    Str(<<"%", "3", "1">>),
    Str(<<"%", "0", "0">>),
    Str(<<"%", "E", "2", "%", "8", "2", "%", "A", "C">>),
    Str(<<"%", "E", "2", "%", "8", "2">>),
    Str(<<"1", "0", "0", "%">>),
    Str(<<"a", "%", "2", "5", "b">>),
    Str(<<"t", "h", "e", " ", "q", "u", "i", "c", "k", " ", "b", "r", "o", "w", "n", " ", "f", "o", "x", "!">>),
    <<LZ_SIGNATURE, 2091, 32, 32>>,
    <<LZ_SIGNATURE>> \o Str(<<"%", "2", "0">>),
    <<LZ_SIGNATURE, 2091>>,
    Str(<<"a", "b", "c", "d", "e", "f", "g", "h", "i">>) \o <<0>>,
    Str(<<"a", "b", "c", "d", "e", "f", "g", "h", "i", "j">>) \o <<0>>,
    Str(<<"a", "b", "c", "d", "e", "f", "g", "h", "i", "%", "0", "0">>),
    Str(<<"a", "b", "c", "d", "e", "f", "g", "h", "i", "j", "%", "0", "0">>),
    Str(<<"Y", "W", "J", "j", "Z", "G", "V", "m", "Z", "2", "h", "p", "A", "A", "=", "=">>),
    Str(<<"Y", "W", "J", "j", "Z", "G", "V", "m", "Z", "2", "h", "p", "a", "g", "A", "=">>),
    EURO \o Str(<<"u", "r", "o">>),
    <<55357>> \o Str(<<"a", "b", "c">>) }

Strings == StringsUpTo(MaxLen) \cup Corpus

NonStrings == {JSNull, JSUndefined, JSNumber(0), JSNumber(7), JSBoolean(FALSE),
               JSBoolean(TRUE), JSArray}

Values == {JSString(s) : s \in Strings} \cup NonStrings

\* What the library may hand back: a JSON text, readable text, unreadable text.
LZ_JSON == Str(<<"{", "\"", "h", "p", "\"", ":", "1", "0", "0", "}">>)
LZ_TEXT == Str(<<"s", "a", "v", "e", " ", "s", "l", "o", "t", " ", "1", ":", " ", "l", "e", "v", "e", "l", " ", "4", ",", " ", "g", "o", "l", "d", " ", "2", "5", "0">>)
LZ_JUNK == <<0, 1, 65535, 7, 300, 2, 40000, 5, 9000, 3, 128, 6>>
\* Twenty characters, nineteen of them printable: 95% exactly.
LZ_EDGE == Str(<<"s", "l", "o", "t", " ", "1", ":", " ", "l", "e", "v", "e", "l", " ", "4", ",", " ", "o", "k">>) \o <<0>>
\* Readable text shorter than the values it is returned for.
LZ_BRIEF == Str(<<"l", "e", "v", "e", "l", " ", "4", " ", "g", "o", "l", "d">>)

LZEntryPoints == {LZMethods[i] : i \in 1..Len(LZMethods)} \cup {"compressToUTF16"}

LZDecompressors == LZEntryPoints \ {"compressToUTF16"}

\* The library decompresses nothing and compresses.
NoLZ == [m \in LZEntryPoints |->
           IF m = "compressToUTF16" THEN LZReturned(JSString(LZ_COMPRESSED))
           ELSE LZReturned(JSNull)]

\* Every decompressor but the compressor returns a JSON text.
AllJSON == [m \in LZEntryPoints |->
              IF m = "compressToUTF16" THEN NoLZ[m] ELSE LZReturned(JSString(LZ_JSON))]

\* The behaviours of the library on v: each decompressor returns null, a JSON
\* text or readable text; or one of them throws, or returns v itself, the empty
\* string, unreadable text, text that is printable to 95% exactly or a short
\* readable text, while the others all return null or all return a JSON text;
\* or the compressor throws.
LZOracles(v) ==
  {[m \in LZEntryPoints |-> IF m = "compressToUTF16" THEN NoLZ[m] ELSE o[m]] :
     o \in [LZDecompressors -> {LZReturned(JSNull), LZReturned(JSString(LZ_JSON)),
                                LZReturned(JSString(LZ_TEXT))}]}
    \cup {[base EXCEPT ![m] = r] :
            base \in {NoLZ, AllJSON}, m \in LZDecompressors,
            r \in {LZThrew, LZReturned(v), LZReturned(JSString(<<>>)),
                   LZReturned(JSString(LZ_JUNK)), LZReturned(JSString(LZ_EDGE)),
                   LZReturned(JSString(LZ_BRIEF))}}
    \cup {[NoLZ EXCEPT !["compressToUTF16"] = LZThrew]}

\* The behaviour o of the library, its compressor returning the compressed
\* form of what LZStringCodec.encode hands it for the text s.
WithCompressor(o, s) ==
  [o EXCEPT !["compressToUTF16"] =
     IF @.ok THEN LZReturned(JSString(Compressed(MinifiedOrSame(s)))) ELSE @]

\* What the library does with the text y its compressToUTF16 made of t:
\* decompressFromUTF16 gives t back, and the decompressors of the other
\* formats all throw or all return null, the empty string or unreadable text.
LZRoundTrips(t, y) ==
  {[m \in LZEntryPoints |->
      IF m = "compressToUTF16" THEN LZReturned(JSString(Compressed(y)))
      ELSE IF m = "decompressFromUTF16" THEN LZReturned(JSString(t))
      ELSE r] :
     r \in {LZThrew, LZReturned(JSNull), LZReturned(JSString(<<>>)),
            LZReturned(JSString(LZ_JUNK))}}

\* The values inspected under every behaviour of the library.
LZCorpus ==
  { Str(<<"{", "\"", "h", "p", "\"", ":", "1", "0", "0", "}">>),
    Str(<<"%", "7", "B", "%", "2", "2", "h", "p", "%", "2", "2", "%", "3", "A", "1", "0", "0", "%", "7", "D">>),
    Str(<<"a", "G", "V", "s", "b", "G", "8", "g", "d", "2", "9", "y", "b", "G", "Q", "h", "I", "S", "E", "h">>),
    Str(<<"t", "h", "e", " ", "q", "u", "i", "c", "k", " ", "b", "r", "o", "w", "n", " ", "f", "o", "x", "!">>),
    Str(<<"{", "}">>),
    Str(<<"s", "a", "v", "e", "g", "a", "m", "e", "0", "1">>),
    Str(<<"Y", "W", "I">>) }

Inputs ==
  {<<v, IF IsString(v) THEN WithCompressor(NoLZ, v.s) ELSE NoLZ>> : v \in Values}
    \cup UNION {{<<JSString(s), WithCompressor(o, s)>> : o \in LZOracles(JSString(s))} :
                 s \in LZCorpus}

(***************************************************************************)
(* Calls on the registry and on the codecs                                 *)
(***************************************************************************)
\* again: a detect call made after an earlier detect call and a call of
\* canDecode, decode or encode since.
\* lib: the entry points of the library LZStringCodec.canDecode called.
\* accepted: what isMeaningfulText returned.
NoCall == [op |-> "none", codec |-> "-", ok |-> TRUE, out |-> <<>>, ret |-> "-",
           score |-> 0, trace |-> <<>>, again |-> FALSE, lib |-> <<>>,
           accepted |-> FALSE]

NoEdit == [open |-> FALSE, kind |-> "-", codec |-> "null", decoded |-> <<>>,
           lang |-> "-", status |-> "", original |-> <<>>, item |-> <<>>]

\* The worker has handled no message yet.
NoWorker == [request |-> <<>>, posted |-> <<>>]

Init ==
  /\ codecs = CodecManager_constructor
  /\ \E in \in Inputs : val = in[1] /\ lz = in[2]
  /\ call = NoCall
  /\ detected = {}
  /\ edit = NoEdit
  /\ events = <<>>
  /\ origin = <<>>
  /\ worker = NoWorker
  /\ codecWorker = "null"
  /\ listeners = <<>>
  /\ inbox = <<>>
  /\ outbox = <<>>
  /\ tasks = <<>>

\* The record of a call of decode or encode on a codec and of its outcome r.
CodecCall(op, codec, r) ==
  [NoCall EXCEPT !.op = op, !.codec = codec, !.ok = r.ok, !.out = r.s]

\* The record of a detect call and of its outcome d.
DetectCall(d) ==
  [NoCall EXCEPT !.op = "detect", !.ret = d.ret, !.trace = d.trace,
                 !.again = detected # {} /\ call.op \in {"canDecode", "decode", "encode"}]

\* codecManager.detect(val)
Detect ==
  /\ call' = DetectCall(CodecManager_detect(val))
  /\ detected' = detected \cup {call'.ret}
  /\ UNCHANGED <<codecs, val, lz, edit, events, origin, worker,
               codecWorker, listeners, inbox, outbox, tasks>>

\* codec.canDecode(val) on a registered codec
CanDecode(i) ==
  /\ call' = [NoCall EXCEPT !.op = "canDecode", !.codec = codecs[i],
                            !.score = canDecode(codecs[i], val),
                            !.lib = IF codecs[i] = "lzstring"
                                    THEN LZStringCodec_decompressions(val) ELSE <<>>]
  /\ UNCHANGED <<codecs, val, lz, detected, edit, events, origin, worker,
               codecWorker, listeners, inbox, outbox, tasks>>

\* A decode that moves the first registered codec to the end of the list.
Decode_rotating(i) ==
  /\ IsString(val)
  /\ call' = CodecCall("decode", codecs[i], decode(codecs[i], val.s))
  /\ codecs' = Tail(codecs) \o <<Head(codecs)>>
  /\ UNCHANGED <<val, lz, detected, edit, events, origin, worker,
               codecWorker, listeners, inbox, outbox, tasks>>

\* codec.decode(val) on a registered codec
Decode(i) ==
  /\ IsString(val)
  /\ call' = CodecCall("decode", codecs[i], decode(codecs[i], val.s))
  /\ UNCHANGED <<codecs, val, lz, detected, edit, events, origin, worker,
               codecWorker, listeners, inbox, outbox, tasks>>

\* codec.encode(val) on a registered codec
Encode(i) ==
  /\ IsString(val)
  /\ call' = CodecCall("encode", codecs[i], encode(codecs[i], val.s))
  /\ UNCHANGED <<codecs, val, lz, detected, edit, events, origin, worker,
               codecWorker, listeners, inbox, outbox, tasks>>

\* The codecs that have a meaningful-text check.
TextCheckers == {"lzstring", "base64", "url"}

isMeaningfulText(codec, s) ==
  CASE codec = "lzstring" -> LZStringCodec_isMeaningfulText(s)
    [] codec = "base64" -> Base64Codec_isMeaningfulText(s)
    [] codec = "url" -> UrlCodec_isMeaningfulText(s)

\* codec.isMeaningfulText(val)
IsMeaningfulText(codec) ==
  /\ IsString(val)
  /\ call' = [NoCall EXCEPT !.op = "isMeaningfulText", !.codec = codec,
                            !.accepted = isMeaningfulText(codec, val.s)]
  /\ UNCHANGED <<codecs, val, lz, detected, edit, events, origin, worker,
               codecWorker, listeners, inbox, outbox, tasks>>

\* The text LZStringCodec.encode returned is written to the item and is the
\* value inspected from then on.
StoreCompressed ==
  /\ call.op = "encode" /\ call.codec = "lzstring" /\ call.ok
  /\ val' = JSString(call.out)
  /\ lz' \in LZRoundTrips(MinifiedOrSame(val.s), call.out)
  /\ origin' = <<val.s>>
  /\ call' = NoCall
  /\ detected' = {}
  /\ UNCHANGED <<codecs, edit, events, worker, codecWorker, listeners, inbox, outbox, tasks>>

Next ==
  \/ Detect
  \/ \E i \in 1..Len(codecs) : CanDecode(i)
  \/ \E i \in 1..Len(codecs) : Decode(i)
  \/ \E i \in 1..Len(codecs) : Encode(i)
  \/ \E codec \in TextCheckers : IsMeaningfulText(codec)
  \/ StoreCompressed

Spec == Init /\ [][Next]_vars

(***************************************************************************)
(* Editing a stored value: onEdit of the cookie grid and of the page       *)
(* storage grids, the save callback it registers, and the EDITOR_SAVE      *)
(* listener of CodeEditor.                                                 *)
(***************************************************************************)
WORKER_THRESHOLD == 100000

StorageKinds == {"cookie", "localStorage", "sessionStorage"}

Event(type, kind, value, flag) ==
  [type |-> type, kind |-> kind, value |-> value, flag |-> flag]

\* The items opened in the editor: a JSON document, Base64 and percent-encoded
\* texts (one the Base64 of a JSON string with an escaped character outside
\* Latin-1), plain text, a value carrying the LZString signature.
EditItems ==
  { Str(<<"{", "\"", "h", "p", "\"", ":", "1", "0", "0", "}">>),
    Str(<<"W", "1", "0", "=">>),
    Str(<<"I", "l", "x", "1", "M", "j", "B", "h", "Y", "y", "I", "=">>),
    Str(<<"%", "5", "B", "%", "5", "D">>),
    Str(<<"f", "o", "o", "%", "2", "0", "b", "a", "r", "%", "2", "0", "b", "a", "z">>),
    Str(<<"a", "b">>),
    Str(<<"t", "h", "e", " ", "q", "u", "i", "c", "k", " ", "b", "r", "o", "w", "n", " ", "f", "o", "x", "!">>),
    <<LZ_SIGNATURE, 2091, 32, 32>> }

UTF16Hit == [NoLZ EXCEPT !["decompressFromUTF16"] = LZReturned(JSString(LZ_JSON))]

EditOracles ==
  {NoLZ, UTF16Hit, [NoLZ EXCEPT !["compressToUTF16"] = LZThrew],
   [UTF16Hit EXCEPT !["compressToUTF16"] = LZThrew]}

\* What the user may save from the editor window: the text as opened, a JSON
\* text, text with a character outside Latin-1, text with a lone surrogate.
EditContents ==
  {edit.decoded, Str(<<"[", "2", " ", "]">>), EURO, <<55357>> \o Str(<<"a">>)}

InitEdit ==
  /\ codecs = CodecManager_constructor
  /\ val \in {JSString(s) : s \in EditItems}
  /\ lz \in EditOracles
  /\ call = NoCall
  /\ detected = {}
  /\ edit = NoEdit
  /\ events = <<>>
  /\ origin = <<>>
  /\ worker = NoWorker
  /\ codecWorker = "null"
  /\ listeners = <<>>
  /\ inbox = <<>>
  /\ outbox = <<>>
  /\ tasks = <<>>

\* Heuristic: decoded text that starts with { or [ is highlighted as JSON.
onEdit_lang(codec, trimmed) ==
  IF codec # "null" /\ (StartsWithCh(trimmed, LBRACE) \/ StartsWithCh(trimmed, LBRACK))
  THEN "json" ELSE "text"

\* The test that sends a value to the worker at 100,000 characters already.
onEdit_useWorker_atThreshold(codec, length) ==
  codec # "null" /\ length >= WORKER_THRESHOLD

\* if (codec) { if (val.length > 100000) ... }: a value with a detected codec
\* goes to the worker when it is longer than 100,000 characters.
onEdit_useWorker(codec, length) ==
  codec # "null" /\ length > WORKER_THRESHOLD

\* onEdit(item) of a grid up to editor.open: the codec detected for item.value,
\* whether the value goes to the worker, and the window editor.open is given
\* (decoded text, language, the original value passed as fifth argument, and
\* the codec and item its save callback closes over), the call of decode.
onEdit(kind, v) ==
  LET Open(codec, r) ==
        [codec |-> codec,
         worker |-> onEdit_useWorker(codec, Len(v.s)),
         ok |-> r.ok,
         call |-> IF codec # "null" THEN CodecCall("decode", codec, r) ELSE call,
         window |-> [open |-> TRUE, kind |-> kind, codec |-> codec, decoded |-> r.s,
                     lang |-> onEdit_lang(codec, Trim(r.s)), status |-> "",
                     original |-> v.s, item |-> v.s]]
      Detected(codec) ==
        Open(codec, IF codec # "null" THEN decode(codec, v.s) ELSE Returned(v.s))
  IN  Detected(CodecManager_detect(v).ret)

\* editor.open(content, language, onSave, uniqueKey): a window open for the
\* key is focused and keeps its text, and its save callback is replaced;
\* otherwise a new window is opened.
CodeEditor_open(current, window, reuse) ==
  IF reuse THEN [current EXCEPT !.codec = window.codec, !.item = window.item]
  ELSE window

\* onEdit(item), on the branch that decodes inline.  The window of the item
\* may still be open, or the user has closed it.
OnEdit(kind) ==
  /\ \E o \in {onEdit(kind, val)}, reuse \in {FALSE, edit.open /\ edit.kind = kind} :
       /\ ~o.worker
       /\ detected' = detected \cup {o.codec}
       /\ edit' = IF o.ok THEN CodeEditor_open(edit, o.window, reuse) ELSE edit
       /\ call' = o.call
  /\ UNCHANGED <<codecs, val, lz, events, origin, worker,
                 codecWorker, listeners, inbox, outbox, tasks>>

\* A callback that encodes whatever the view saved from.
onSave_saveVal_anyView(codec, newVal, isRaw) ==
  IF codec # "null" THEN encode(codec, newVal) ELSE Returned(newVal)

\* let saveVal = newVal; if (codec && !isRaw) saveVal = codec.encode(newVal)
onSave_saveVal(codec, newVal, isRaw) ==
  IF codec # "null" /\ ~isRaw THEN encode(codec, newVal) ELSE Returned(newVal)

\* The save callback (newVal, isRaw) registered by onEdit: what it does up to
\* its first await.  A throw of encode is caught and reported with alert().
SaveCallback(r) ==
  IF r.ok THEN <<Event("write", edit.kind, r.s, FALSE)>>
  ELSE <<Event("alert", edit.kind, <<>>, FALSE)>>

\* The EDITOR_SAVE listener of CodeEditor: run the callback of the window,
\* then sendResponse({ success: true }).
CodeEditor_onEditorSave(r) ==
  SaveCallback(r) \o <<Event("response", edit.kind, <<>>, TRUE)>>

\* The response callback of saveToParent: the status line the editor shows.
saveToParent_status(response) ==
  IF response.flag THEN "Saved!" ELSE "Error saving"

\* What a save leaves behind, r being what codec.encode did if the callback
\* called it: the message and what the popup did on it, the editor window with
\* its new status line, the call of encode.
SaveOutcome(content, isRaw, r) ==
  LET Answered(done) ==
        [events |-> <<Event("EDITOR_SAVE", edit.kind, content, isRaw)>> \o done,
         status |-> saveToParent_status(done[Len(done)]),
         call |-> IF edit.codec # "null" /\ ~isRaw
                  THEN CodecCall("encode", edit.codec, r) ELSE call]
  IN  Answered(CodeEditor_onEditorSave(r))

\* What the library does with the value a save has stored: a value the
\* LZString codec compressed decompresses to the text it was made of.
StoredOracles(codec, content, isRaw, stored) ==
  IF codec = "lzstring" /\ ~isRaw
  THEN LZRoundTrips(MinifiedOrSame(content), stored)
  ELSE {[NoLZ EXCEPT !["compressToUTF16"] = lz["compressToUTF16"]]}

\* saveToParent of the editor window and the popup's handling of its message.
\* A write replaces the stored value; the window and its callback stay.
EditorSave(content, isRaw) ==
  /\ edit.open
  /\ \E r \in {onSave_saveVal(edit.codec, content, isRaw)} :
       /\ \E o \in {SaveOutcome(content, isRaw, r)} :
            /\ events' = o.events
            /\ edit' = [edit EXCEPT !.status = o.status]
            /\ call' = o.call
       /\ IF r.ok
          THEN /\ val' = JSString(r.s)
               /\ lz' \in StoredOracles(edit.codec, content, isRaw, r.s)
          ELSE UNCHANGED <<val, lz>>
  /\ UNCHANGED <<codecs, detected, origin, worker,
                 codecWorker, listeners, inbox, outbox, tasks>>

NextEdit ==
  \/ \E kind \in StorageKinds : OnEdit(kind)
  \/ \E content \in EditContents, isRaw \in BOOLEAN : EditorSave(content, isRaw)

SpecEdit == InitEdit /\ [][NextEdit]_vars

(***************************************************************************)
(* The codec worker (codec-worker.js): its onmessage handler runs to       *)
(* completion on each message the popup posts to it.  The payload is the   *)
(* stored value val, a string: decodeAsync is only called on strings.      *)
(***************************************************************************)
\* isMeaningfulText of the worker: (printable / str.length) > 0.95
Worker_isMeaningfulText(s) ==
  IF s = <<>> \/ Len(s) < 2 THEN FALSE ELSE 100 * Printable(s) > 95 * Len(s)

\* The loop of decodeLZString over the methods from the i-th on.
RECURSIVE Worker_decodeLZStringFrom(_, _)
Worker_decodeLZStringFrom(s, i) ==
  LET Text(decompressed, p) ==
        IF p.ok THEN Returned(JSONStringifyPretty(p.v))
        ELSE IF Worker_isMeaningfulText(decompressed) THEN Returned(decompressed)
        ELSE Worker_decodeLZStringFrom(s, i + 1)
      Method(r) ==
        IF r.ok /\ Truthy(r.r) /\ r.r # JSString(s)
        THEN Text(r.r.s, JSONParse(r.r.s))
        ELSE Worker_decodeLZStringFrom(s, i + 1)
  IN  IF i > Len(LZMethods) THEN Returned(s)
      ELSE Method(LZString(LZMethods[i], JSString(s)))

Worker_decodeLZString(s) == Worker_decodeLZStringFrom(s, 1)

\* An exception thrown inside the try block, with its message.
WorkerThrew(message) == [ok |-> FALSE, s |-> <<>>, error |-> message]

\* A DECODE branch that throws on a name it does not know.
Worker_decode_strict(codecName, payload) ==
  LET Decoded(decoded, message) ==
        IF decoded.ok THEN Returned(PrettyOrSame(decoded.s)) ELSE WorkerThrew(message)
  IN  CASE codecName = "lzstring" -> Worker_decodeLZString(payload)
        [] codecName = "base64" -> Decoded(Atob(payload), "InvalidCharacterError")
        [] codecName = "url" -> Decoded(DecodeURIComponent(payload), "URI malformed")
        [] codecName = "json" -> Returned(PrettyOrSame(payload))
        [] OTHER -> WorkerThrew("Unknown codec")

\* The try block of the DECODE branch up to postMessage: the result computed,
\* or the exception thrown.
Worker_decode(codecName, payload) ==
  LET Decoded(decoded, message) ==
        IF decoded.ok THEN Returned(PrettyOrSame(decoded.s)) ELSE WorkerThrew(message)
  IN  CASE codecName = "lzstring" -> Worker_decodeLZString(payload)
        [] codecName = "base64" -> Decoded(Atob(payload), "InvalidCharacterError")
        [] codecName = "url" -> Decoded(DecodeURIComponent(payload), "URI malformed")
        [] codecName = "json" -> Returned(PrettyOrSame(payload))
        [] OTHER -> Returned(payload)

\* The messages of the worker: a present field is a sequence of one element.
WorkerSuccess(result) == [success |-> TRUE, result |-> <<result>>, error |-> <<>>]
WorkerFailure(message) == [success |-> FALSE, result |-> <<>>, error |-> <<message>>]

\* A handler whose catch block posts nothing.
Worker_onmessage_silentCatch(type, payload, codecName) ==
  LET Answer(r) == IF r.ok THEN <<WorkerSuccess(r.s)>> ELSE <<>>
  IN  IF type = "DECODE" THEN Answer(Worker_decode(codecName, payload)) ELSE <<>>

\* self.onmessage: the messages it posts, in order.
Worker_onmessage(type, payload, codecName) ==
  LET Answer(r) ==
        IF r.ok THEN <<WorkerSuccess(r.s)>> ELSE <<WorkerFailure(r.error)>>
  IN  IF type = "DECODE" THEN Answer(Worker_decode(codecName, payload)) ELSE <<>>

MessageTypes == {"DECODE", "ENCODE", "PING"}

\* The codec names a request may carry: the four codecs, the name of the Codec
\* base class, a name no codec has.
RequestedNames == {"json", "lzstring", "base64", "url", "raw", "gzip"}

\* The worker handles the message {type, payload: val, codecName}.
WorkerOnMessage(type, codecName) ==
  /\ IsString(val)
  /\ worker' = [request |-> <<[type |-> type, payload |-> val.s, codecName |-> codecName]>>,
                posted |-> Worker_onmessage(type, val.s, codecName)]
  /\ UNCHANGED <<codecs, val, lz, call, detected, edit, events, origin,
               codecWorker, listeners, inbox, outbox, tasks>>

NextWorker ==
  \E type \in MessageTypes, codecName \in RequestedNames : WorkerOnMessage(type, codecName)

SpecWorker == Init /\ [][NextWorker]_vars

(***************************************************************************)
(* decodeAsync and the shared codec worker (popup.js): onEdit of a grid    *)
(* sends a long value to the worker and awaits the reply; the worker and   *)
(* the popup each handle their queued messages one at a time.              *)
(***************************************************************************)
MaxCalls == 2

\* The values of the items edited: a JSON document, Base64 and percent-encoded
\* texts, a value carrying the LZString signature, plain text.
AsyncValues ==
  { Str(<<"{", "\"", "h", "p", "\"", ":", "1", "0", "0", "}">>),
    Str(<<"W", "1", "0", "=">>),
    Str(<<"%", "7", "B", "%", "7", "D">>),
    <<LZ_SIGNATURE, 2091, 32, 32>>,
    Str(<<"a", "b">>) }

\* An item of a grid: its value and the length of the value.  The model holds
\* the text of a value up to a few characters; an item of 100,000 or 100,001
\* characters stands with the text of a short value of the same encoding.
AsyncItems ==
  {[value |-> s, length |-> n] :
     s \in AsyncValues, n \in {WORKER_THRESHOLD, WORKER_THRESHOLD + 1}}
    \cup {[value |-> s, length |-> Len(s)] : s \in AsyncValues}

AsyncKinds == {"cookie", "localStorage"}

InSeq(x, seq) == \E k \in 1..Len(seq) : seq[k] = x

\* getCodecWorker(): the worker is created on the first call and kept; its
\* script runs importScripts and installs onmessage, or fails before it does.
getCodecWorker(cw) == IF cw = "null" THEN {"loaded", "failed"} ELSE {cw}

\* A worker whose script failed handles messages all the same.
Worker_receives_always(cw) == cw # "null"

\* The worker handles messages once its script has installed self.onmessage.
Worker_receives(cw) == cw = "loaded"

\* A run of onEdit(item): what it detected, whether it called decodeAsync,
\* the promise decodeAsync returned, the calls of resolve and reject so far,
\* the message its listener was run with, whether the catch block decoded
\* inline, and the text it gave editor.open.
Task(kind, item, codec) ==
  [kind |-> kind, value |-> item.value, length |-> item.length, codec |-> codec,
   route |-> "inline", promise |-> "none", settles |-> 0, reply |-> <<>>,
   fallback |-> FALSE, decoded |-> <<>>]

\* The window a run of onEdit opens with the text decoded.
onEdit_window(task, decoded) ==
  [open |-> TRUE, kind |-> task.kind, codec |-> task.codec, decoded |-> decoded,
   lang |-> onEdit_lang(task.codec, Trim(decoded)), status |-> "",
   original |-> task.value, item |-> task.value]

\* decodeAsync(payload, codecName): the promise is pending, handleMsg is
\* registered, the request is posted.  The message carries no identifier.
decodeAsync(payload, codecName) ==
  [type |-> "DECODE", payload |-> payload, codecName |-> codecName]

\* handleMsg(e): resolve or reject the promise of the run.
decodeAsync_handleMsg(task, e) ==
  [task EXCEPT !.promise = IF e.success THEN "resolved" ELSE "rejected",
               !.settles = @ + 1,
               !.reply = <<e>>]

\* onEdit after the await: the text resolved with, or on a rejection what
\* codec.decode makes of the value.
onEdit_resume(task) ==
  [task EXCEPT !.fallback = task.promise = "rejected",
               !.decoded = IF task.promise = "resolved" THEN task.reply[1].result
                           ELSE <<decode(task.codec, task.value).s>>]

\* Dispatch to the oldest listener only.
Recipients_first(ls) == IF ls = <<>> THEN <<>> ELSE <<Head(ls)>>

\* The listeners a 'message' event of the worker is dispatched to: every
\* listener registered when the event fires.
Recipients(ls) == ls

\* Listeners that stay registered after they ran.
removeEventListener_kept(ls, rs) == ls

\* worker.removeEventListener('message', handleMsg), by each listener that ran.
removeEventListener(ls, rs) == SelectSeq(ls, LAMBDA i : ~InSeq(i, rs))

InitAsync ==
  /\ codecs = CodecManager_constructor
  /\ val \in {JSString(s) : s \in AsyncValues}
  /\ lz = NoLZ
  /\ call = NoCall
  /\ detected = {}
  /\ edit = NoEdit
  /\ events = <<>>
  /\ origin = <<>>
  /\ worker = NoWorker
  /\ codecWorker = "null"
  /\ listeners = <<>>
  /\ inbox = <<>>
  /\ outbox = <<>>
  /\ tasks = <<>>

\* onEdit(item) up to its await or, when it decodes inline, to editor.open.
OnEditItem(kind, item) ==
  /\ Len(tasks) < MaxCalls
  /\ \E o \in {onEdit(kind, JSString(item.value))} :
       /\ detected' = detected \cup {o.codec}
       /\ IF onEdit_useWorker(o.codec, item.length)
          THEN /\ codecWorker' \in getCodecWorker(codecWorker)
               /\ listeners' = Append(listeners, Len(tasks) + 1)
               /\ inbox' = Append(inbox, decodeAsync(item.value, o.codec))
               /\ tasks' = Append(tasks, [Task(kind, item, o.codec) EXCEPT
                                            !.route = "worker", !.promise = "pending"])
               /\ edit' = edit
          ELSE /\ tasks' = Append(tasks, [Task(kind, item, o.codec) EXCEPT
                                            !.decoded = <<o.window.decoded>>])
               /\ edit' = o.window
               /\ UNCHANGED <<codecWorker, listeners, inbox>>
  /\ val' = JSString(item.value)
  /\ UNCHANGED <<codecs, lz, call, events, origin, worker, outbox>>

\* The worker takes the next request and runs self.onmessage on it.
WorkerStep ==
  /\ Worker_receives(codecWorker)
  /\ inbox # <<>>
  /\ \E posted \in {Worker_onmessage(Head(inbox).type, Head(inbox).payload,
                                     Head(inbox).codecName)} :
       /\ worker' = [request |-> <<Head(inbox)>>, posted |-> posted]
       /\ outbox' = outbox \o posted
  /\ inbox' = Tail(inbox)
  /\ UNCHANGED <<codecs, val, lz, call, detected, edit, events, origin,
                 codecWorker, listeners, tasks>>

\* The popup dispatches the next reply of the worker: each listener settles
\* its promise and removes itself, and the runs of onEdit that awaited those
\* promises go on to editor.open.
Deliver ==
  /\ outbox # <<>>
  /\ \E rs \in {Recipients(listeners)} :
       /\ tasks' = [i \in 1..Len(tasks) |->
                      IF InSeq(i, rs)
                      THEN onEdit_resume(decodeAsync_handleMsg(tasks[i], Head(outbox)))
                      ELSE tasks[i]]
       /\ listeners' = removeEventListener(listeners, rs)
       /\ edit' = IF rs = <<>> THEN edit
                  ELSE onEdit_window(tasks'[rs[Len(rs)]], tasks'[rs[Len(rs)]].decoded[1])
  /\ outbox' = Tail(outbox)
  /\ UNCHANGED <<codecs, val, lz, call, detected, events, origin, worker, codecWorker,
                 inbox>>

NextAsync ==
  \/ \E kind \in AsyncKinds, item \in AsyncItems : OnEditItem(kind, item)
  \/ WorkerStep
  \/ Deliver

SpecAsync == InitAsync /\ [][NextAsync]_vars

\* Every promise of decodeAsync has settled.
NonePending == \A i \in 1..Len(tasks) : tasks[i].promise # "pending"

\* onEdit when the user waits for each editor window before the next click.
OnEditAwaited(kind, item) == NonePending /\ OnEditItem(kind, item)

NextAwaited ==
  \/ \E kind \in AsyncKinds, item \in AsyncItems : OnEditAwaited(kind, item)
  \/ WorkerStep
  \/ Deliver

\* The steps in which the worker takes a request, and those in which the
\* popup dispatches a reply: the steps of WorkerStep and of Deliver.
TakesRequest == Worker_receives(codecWorker) /\ inbox # <<>> /\ inbox' = Tail(inbox)
DispatchesReply == outbox # <<>> /\ outbox' = Tail(outbox)

\* The worker and the popup get to every message queued for them.
SpecAwaited ==
  /\ InitAsync /\ [][NextAwaited]_vars
  /\ WF_inbox(TakesRequest) /\ WF_outbox(DispatchesReply)

(***************************************************************************)
(* Properties of detection                                                 *)
(***************************************************************************)
\* The registration order the constructor is documented to set up.
Registered == <<"json", "lzstring", "base64", "url">>

\* A detect call that got past the guard: on a string of two characters or more.
DetectedString == call.op = "detect" /\ IsString(val) /\ Len(val.s) >= 2

\* The positions in the registration order of the codecs scoring at least n.
ScoringAtLeast(n) == {i \in 1..Len(Registered) : canDecode(Registered[i], val) >= n}

Least(S) == CHOOSE i \in S : \A j \in S : i <= j

\* The highest score any registered codec gives val.
TopScore ==
  CHOOSE n \in {canDecode(Registered[i], val) : i \in 1..Len(Registered)} :
    ScoringAtLeast(n + 1) = {}

\* C1: on a string of length >= 2 detect returns null or one registered codec,
\* and a codec it returns has the highest canDecode score of the four; of the
\* codecs sharing that score it is the one registered earliest.
C1_HighestScoreWins ==
  DetectedString =>
    \/ call.ret = "null"
    \/ call.ret = Registered[Least(ScoringAtLeast(TopScore))]

\* detect returned a codec while a codec registered later has the same score.
C1_Witness ==
  /\ DetectedString
  /\ call.ret # "null"
  /\ Cardinality(ScoringAtLeast(TopScore)) >= 2

\* The canDecode evaluations of a first pass that stops at position n.
FirstPassUpTo(n) ==
  [k \in 1..n |-> Scored(Registered[k], canDecode(Registered[k], val), 1)]

\* C2: the first pass scores the codecs in the order JSON, LZString, Base64,
\* URL and returns the first one scoring >= 90 at once: no later codec is
\* scored and no second pass runs.  A value JsonCodec scores 100 is detected as
\* JSON with no other codec scored.  With no score >= 90 the first pass scores
\* all four, in order.
C2_FirstPassShortCircuits ==
  DetectedString =>
    /\ ScoringAtLeast(90) # {} =>
         /\ call.ret = Registered[Least(ScoringAtLeast(90))]
         /\ call.trace = FirstPassUpTo(Least(ScoringAtLeast(90)))
    /\ ScoringAtLeast(90) = {} =>
         /\ Len(call.trace) >= Len(Registered)
         /\ SubSeq(call.trace, 1, Len(Registered)) = FirstPassUpTo(Len(Registered))
    /\ JsonCodec_canDecode(val) = 100 =>
         /\ call.ret = "json"
         /\ call.trace = <<Scored("json", 100, 1)>>

\* detect returned LZString on its signature for a value the URL codec, never
\* scored, would have been asked about next but one.
C2_Witness ==
  /\ DetectedString
  /\ call.ret = "lzstring"
  /\ call.trace = FirstPassUpTo(2)
  /\ HasCh(val.s, PERCENT)

\* C3: when no codec scores >= 90, detect returns the codec holding the
\* highest score if that score is >= 50 and null otherwise; detect never
\* returns a codec that scores the value below 50.
C3_SecondPassThreshold ==
  DetectedString =>
    /\ ScoringAtLeast(90) = {} =>
         call.ret = IF TopScore >= 50 THEN Registered[Least(ScoringAtLeast(TopScore))]
                    ELSE "null"
    /\ call.ret # "null" => canDecode(call.ret, val) >= 50

\* detect returned, from its second pass, a codec scoring between 50 and 89.
C3_Witness ==
  /\ DetectedString
  /\ ScoringAtLeast(90) = {}
  /\ call.ret # "null"
  /\ canDecode(call.ret, val) \in 50..79
  /\ Len(call.trace) = 2 * Len(Registered)

\* null, undefined, a value that is no string, the empty string, one character.
Guarded ==
  \/ val \in {JSNull, JSUndefined}
  \/ val.t # "string"
  \/ val.s = <<>>
  \/ Len(val.s) < 2

\* C4: on null, undefined, a non-string, the empty string or a string of one
\* character detect returns null and evaluates no canDecode.
C4_GuardReturnsNull ==
  (call.op = "detect" /\ Guarded) => (call.ret = "null" /\ call.trace = <<>>)

\* detect returned null on a string of one character that is a JSON text.
C4_Witness ==
  /\ call.op = "detect"
  /\ IsString(val) /\ Len(val.s) = 1 /\ JSONParse(val.s).ok
  /\ call.ret = "null"

\* C5, as amended: on a string shorter than 4 characters LZStringCodec and
\* Base64Codec score 0, their length gates rejecting it; detect returns null,
\* the JSON codec or the URL codec, which have no length gate, and null on
\* fewer than 2 characters.
C5_ShortInputs ==
  (IsString(val) /\ Len(val.s) < 4) =>
    /\ call.op = "canDecode" /\ call.codec \in {"lzstring", "base64"} => call.score = 0
    /\ call.op = "detect" => call.ret \in {"null", "json", "url"}
    /\ call.op = "detect" /\ Len(val.s) < 2 => call.ret = "null"

\* detect returned the URL codec on a string of 3 characters.
C5_Witness ==
  /\ call.op = "detect"
  /\ IsString(val) /\ Len(val.s) = 3
  /\ call.ret = "url"

\* C5, as stated: on any input shorter than 4 characters detect returns null.
C5_ShortInputsUndetected ==
  (call.op = "detect" /\ IsString(val) /\ Len(val.s) < 4) => call.ret = "null"

NoUsableVariant ==
  \A m \in LZDecompressors :
    ~(/\ lz[m].ok
      /\ Truthy(lz[m].r)
      /\ lz[m].r # val
      /\ (JSONParse(lz[m].r.s).ok \/ LZStringCodec_isMeaningfulText(lz[m].r.s)))

\* The decoding step of the codec fails on val.
DecodingFails(codec) ==
  CASE codec = "json" -> ~JSONParse(val.s).ok
    [] codec = "lzstring" -> NoUsableVariant
    [] codec = "base64" -> ~Atob(val.s).ok
    [] codec = "url" -> ~DecodeURIComponent(val.s).ok

\* C7: decode of every codec returns, on every string, a string and does not
\* throw; when the decoding step fails (JSON parse error, malformed Base64,
\* invalid percent-encoding, no usable LZString variant) it returns its input.
C7_DecodeNeverThrows ==
  call.op = "decode" =>
    /\ call.ok
    /\ call.out \in Seq(0..65535)
    /\ DecodingFails(call.codec) => call.out = val.s

\* Base64Codec.decode returned its input, text atob rejects.
C7_Witness ==
  /\ call.op = "decode"
  /\ call.codec = "base64"
  /\ Base64Codec_regex(val.s)
  /\ ~Atob(val.s).ok
  /\ call.out = val.s

\* The trimmed text starts with { or [, ends with } or ] and parses as JSON.
JsonDocument(s) ==
  /\ StartsWithCh(Trim(s), LBRACE) \/ StartsWithCh(Trim(s), LBRACK)
  /\ EndsWithCh(Trim(s), RBRACE) \/ EndsWithCh(Trim(s), RBRACK)
  /\ JSONParse(Trim(s)).ok

\* C9: JsonCodec.canDecode returns 100 exactly when its input is a string
\* that, trimmed, starts with { or [, ends with } or ] and parses as JSON, and
\* 0 on everything else, non-strings and JSON scalars included.
C9_JsonScoreIsBinary ==
  (call.op = "canDecode" /\ call.codec = "json") =>
    call.score = IF IsString(val) /\ JsonDocument(val.s) THEN 100 ELSE 0

\* JsonCodec.canDecode returned 100 on a document that only trim() makes one.
C9_Witness ==
  /\ call.op = "canDecode"
  /\ call.codec = "json"
  /\ call.score = 100
  /\ ~JSONParse(val.s).ok

\* C10, as stated: for a string s that parses as JSON, decode(encode(s))
\* parses to the value s parses to; encode(s) is the minified and
\* decode(encode(s)) the pretty-printed text of that value.
C10_JsonRoundTrip ==
  (call.op = "encode" /\ call.codec = "json" /\ JSONParse(val.s).ok) =>
    /\ call.ok
    /\ call.out = JSONStringify(JSONParse(val.s).v)
    /\ JsonCodec_decode(call.out).s = JSONStringifyPretty(JSONParse(val.s).v)
    /\ JSONParse(JsonCodec_decode(call.out).s) = JSONParse(val.s)

\* The content of s as the editor shows it: the pretty-printed text of its
\* value when s parses as JSON, s itself otherwise.
Content(s) == PrettyOrSame(s)

\* C11, as stated: Base64Codec.encode does not fail on a string s, and
\* Base64Codec.decode of what it returns is the content of s: the
\* pretty-printed text of the same JSON value when s is JSON, s otherwise.
C11_Base64RoundTrip ==
  (call.op = "encode" /\ call.codec = "base64") =>
    /\ call.ok
    /\ Base64Codec_decode(call.out) = Returned(Content(val.s))

\* s is the text of a JSON object.
JsonObject(s) == JSONParse(s).ok /\ StartsWithCh(Trim(s), LBRACE)

\* val is what LZStringCodec.encode made of the text of a JSON object.
CompressedObject == origin # <<>> /\ JsonObject(origin[1])

\* C12, as amended: for a JSON object string x and y = LZStringCodec.encode(x),
\* LZStringCodec.decode(y) is x pretty-printed; LZStringCodec.canDecode(y) is 0
\* when y has fewer than 4 characters, 95 when y starts with U+1BE1 and 100
\* otherwise; detect(y) is the LZString codec when y has at least 4 characters
\* and starts with U+1BE1, and is not the LZString codec when y has fewer than 4.
C12_CompressedObjectDetected ==
  CompressedObject =>
    /\ (call.op = "decode" /\ call.codec = "lzstring") =>
         call.ok /\ call.out = PrettyOrSame(origin[1])
    /\ (call.op = "canDecode" /\ call.codec = "lzstring") =>
         call.score = IF Len(val.s) < 4 THEN 0
                      ELSE IF StartsWithCh(val.s, LZ_SIGNATURE) THEN 95
                      ELSE 100
    /\ (call.op = "detect" /\ Len(val.s) >= 4 /\ StartsWithCh(val.s, LZ_SIGNATURE)) =>
         call.ret = "lzstring"
    /\ (call.op = "detect" /\ Len(val.s) < 4) => call.ret # "lzstring"

\* LZStringCodec.canDecode returned 95 on the compressed text of a JSON object.
C12_Witness ==
  /\ CompressedObject
  /\ call.op = "canDecode"
  /\ call.codec = "lzstring"
  /\ call.score = 95

\* C12, as stated: for a JSON object string x, LZStringCodec.encode(x) is
\* detected as LZString, LZStringCodec.canDecode returns 100 on it and
\* LZStringCodec.decode of it returns x pretty-printed.
C12_CompressedObjectCertain ==
  CompressedObject =>
    /\ call.op = "detect" => call.ret = "lzstring"
    /\ (call.op = "canDecode" /\ call.codec = "lzstring") => call.score = 100
    /\ (call.op = "decode" /\ call.codec = "lzstring") =>
         call.ok /\ call.out = PrettyOrSame(origin[1])

\* The trimmed text starts with { or [.
Bracketed(s) == StartsWithCh(Trim(s), LBRACE) \/ StartsWithCh(Trim(s), LBRACK)

\* C13: on a string whose trimmed form starts with { or [, UrlCodec.canDecode
\* returns 0, percent-escapes or not, and detect never returns the URL codec;
\* a JSON document, percent-escapes inside it or not, is detected as JSON.
C13_UrlExclusion ==
  (IsString(val) /\ Bracketed(val.s)) =>
    /\ (call.op = "canDecode" /\ call.codec = "url") => call.score = 0
    /\ call.op = "detect" => call.ret # "url"
    /\ (call.op = "detect" /\ JsonDocument(val.s)) => call.ret = "json"

\* UrlCodec.canDecode returned 0 on a bracketed text whose percent-decoded
\* form is a JSON text.
C13_Witness ==
  /\ call.op = "canDecode"
  /\ call.codec = "url"
  /\ IsString(val) /\ Bracketed(val.s)
  /\ HasCh(val.s, PERCENT)
  /\ DecodeURIComponent(val.s).ok
  /\ JSONParse(DecodeURIComponent(val.s).s).ok
  /\ call.score = 0

\* No decompressor of the library makes a JSON text of val.
NoVariantJSON ==
  \A m \in LZDecompressors :
    ~(lz[m].ok /\ IsString(lz[m].r) /\ JSONParse(lz[m].r.s).ok)

\* LZStringCodec.canDecode was called on a string of fewer than 20 characters
\* that no decompressor makes a JSON text of.
ShortAndNoJSON ==
  /\ call.op = "canDecode"
  /\ call.codec = "lzstring"
  /\ IsString(val) /\ Len(val.s) < 20
  /\ NoVariantJSON

DecodeHandled == worker.request # <<>> /\ worker.request[1].type = "DECODE"

\* {success: true, result} or {success: false, error}
WellFormed(m) ==
  IF m.success THEN m.result # <<>> /\ m.error = <<>>
  ELSE m.error # <<>> /\ m.result = <<>>

\* C15: the worker answers a DECODE request it has handled with exactly one
\* message, {success: true, result} or {success: false, error}; it never
\* posts two for one request and never ends the handler with none.
C15_OneAnswerPerRequest ==
  DecodeHandled => (Len(worker.posted) = 1 /\ WellFormed(worker.posted[1]))

\* The worker answered {success: false, error} to a Base64 request whose
\* payload atob rejects.
C15_Witness ==
  /\ DecodeHandled
  /\ worker.request[1].codecName = "base64"
  /\ ~Atob(worker.request[1].payload).ok
  /\ Len(worker.posted) = 1
  /\ ~worker.posted[1].success

\* C16: a DECODE request whose codecName is none of json, base64, url and
\* lzstring is answered with a success response whose result is the payload.
C16_UnknownNamePassesThrough ==
  (DecodeHandled /\ worker.request[1].codecName \notin {"json", "base64", "url", "lzstring"}) =>
    worker.posted = <<WorkerSuccess(worker.request[1].payload)>>

\* The worker passed through a Base64 text that decodes to a JSON text, asked
\* to decode it under a name no codec has.
C16_Witness ==
  /\ DecodeHandled
  /\ worker.request[1].codecName = "gzip"
  /\ Base64Codec_canDecode(JSString(worker.request[1].payload)) = 100
  /\ worker.posted = <<WorkerSuccess(worker.request[1].payload)>>

(***************************************************************************)
(* Properties of the scores                                                *)
(***************************************************************************)
\* The number of characters of s that are printable ASCII (0x20-0x7E), tab,
\* newline or carriage return.
PrintableCount(s) ==
  Cardinality({i \in 1..Len(s) : s[i] \in (32..126) \cup {TAB, LF, CR}})

\* s is Base64 alphabet characters followed by at most two = signs.
Base64Shaped(s) ==
  \E n \in 0..Len(s) :
    /\ Len(s) - n <= 2
    /\ \A i \in 1..n : s[i] \in UpperAZ \cup LowerAZ \cup Digits \cup {PLUS, SLASH}
    /\ \A i \in (n + 1)..Len(s) : s[i] = EQUALS

\* The score the Base64 rules give the decoding d of a value.
Base64Score(d) ==
  IF ~d.ok THEN 0
  ELSE IF JSONParse(d.s).ok THEN 100
  ELSE IF d.s # <<>> /\ 10 * PrintableCount(d.s) > 9 * Len(d.s) THEN 80
  ELSE 0

\* C17: Base64Codec.canDecode returns 0 on a value that is no string, is
\* shorter than 4 characters or is not Base64 alphabet characters followed by
\* at most two = signs; otherwise 100 if the decoded content parses as JSON,
\* 80 if it does not but is meaningful text, and 0 in all other cases, a
\* failing decoding included.
C17_Base64Score ==
  (call.op = "canDecode" /\ call.codec = "base64") =>
    call.score = IF ~IsString(val) THEN 0
                 ELSE IF Len(val.s) < 4 \/ ~Base64Shaped(val.s) THEN 0
                 ELSE Base64Score(Atob(val.s))

\* Base64Codec.canDecode returned 80 on Base64 of text that is not JSON.
C17_Witness ==
  /\ call.op = "canDecode"
  /\ call.codec = "base64"
  /\ call.score = 80
  /\ ~JSONParse(Atob(val.s).s).ok

\* C18: isMeaningfulText of the Base64 and URL codecs accepts a string
\* exactly when it is not empty and more than 90% of its characters are
\* printable ASCII, tab, newline or carriage return; exactly 90% is rejected.
C18_MeaningfulText ==
  (call.op = "isMeaningfulText" /\ call.codec \in {"base64", "url"}) =>
    call.accepted = (val.s # <<>> /\ 10 * PrintableCount(val.s) > 9 * Len(val.s))

\* The check rejected a string of which exactly 90% is printable.
C18_Witness ==
  /\ call.op = "isMeaningfulText"
  /\ call.codec \in {"base64", "url"}
  /\ val.s # <<>>
  /\ 10 * PrintableCount(val.s) = 9 * Len(val.s)
  /\ ~call.accepted

\* UrlCodec.canDecode was called on a string that contains % and whose
\* trimmed form starts with neither { nor [.
UrlCandidate ==
  /\ call.op = "canDecode"
  /\ call.codec = "url"
  /\ IsString(val) /\ HasCh(val.s, PERCENT) /\ ~Bracketed(val.s)

\* The score the URL rules give the percent-decoding d of val, text counting
\* as meaningful when Meaningful holds of it.
UrlScore(d, Meaningful(_)) ==
  IF ~d.ok \/ d.s = val.s THEN 0
  ELSE IF JSONParse(d.s).ok THEN 100
  ELSE IF Meaningful(d.s) THEN 70
  ELSE 0

MoreThan90(s) == 10 * PrintableCount(s) > 9 * Len(s)
AtLeast90(s) == 10 * PrintableCount(s) >= 9 * Len(s)

\* C19, as amended: on input that contains % and does not start with { or [
\* after trimming, UrlCodec.canDecode returns 0 if percent-decoding throws or
\* yields the identical string, 100 if the decoded result parses as JSON, 70
\* if it is not JSON but more than 90% of its characters are printable, and 0
\* otherwise, at exactly 90% too.
C19_UrlScore ==
  UrlCandidate => call.score = UrlScore(DecodeURIComponent(val.s), MoreThan90)

\* UrlCodec.canDecode returned 0 on a text that decodes to one of which
\* exactly 90% is printable.
C19_Witness ==
  /\ UrlCandidate
  /\ DecodeURIComponent(val.s).ok
  /\ ~JSONParse(DecodeURIComponent(val.s).s).ok
  /\ 10 * PrintableCount(DecodeURIComponent(val.s).s) = 9 * Len(DecodeURIComponent(val.s).s)
  /\ call.score = 0

\* C19, as stated: ... 70 if the decoded result is not JSON but has a
\* printable-character ratio of at least 90%, and 0 otherwise.
C19_UrlScoreAtLeast90 ==
  UrlCandidate => call.score = UrlScore(DecodeURIComponent(val.s), AtLeast90)

\* LZStringCodec.canDecode was called on a string starting with U+1BE1.
SignatureLed ==
  /\ call.op = "canDecode"
  /\ call.codec = "lzstring"
  /\ IsString(val) /\ StartsWithCh(val.s, LZ_SIGNATURE)

\* C20, as amended: on a string of at least 4 characters that starts with
\* U+1BE1, LZStringCodec.canDecode returns 95 without calling any
\* decompressor, whatever the decompressors would make of it; on a shorter
\* one it returns 0, also without calling any.
C20_SignatureFastPath ==
  SignatureLed =>
    /\ call.score = IF Len(val.s) >= 4 THEN 95 ELSE 0
    /\ call.lib = <<>>

\* canDecode returned 95 on a signature-led string no decompressor can use.
C20_Witness ==
  /\ SignatureLed
  /\ call.score = 95
  /\ NoUsableVariant

\* C20, as stated: on every string that starts with U+1BE1, whatever its
\* length, LZStringCodec.canDecode returns 95 without calling a decompressor.
C20_SignatureAtAnyLength ==
  SignatureLed => (call.score = 95 /\ call.lib = <<>>)

(***************************************************************************)
(* Properties of the candidate loop of LZStringCodec.canDecode             *)
(***************************************************************************)
\* canDecode was called on a string of twenty characters or more that does
\* not start with the signature character.
LongUnsigned ==
  /\ call.op = "canDecode" /\ call.codec = "lzstring"
  /\ IsString(val) /\ Len(val.s) >= 20
  /\ ~StartsWithCh(val.s, LZ_SIGNATURE)

\* The variants whose decompressor returned a non-empty string other than the
\* value, in the order UTF16, Base64, URI, generic.
Survivor(m) == lz[m].ok /\ IsString(lz[m].r) /\ lz[m].r.s # <<>> /\ lz[m].r # val
Survivors == SelectSeq(LZMethods, Survivor)

MoreThan95(s) == 100 * PrintableCount(s) > 95 * Len(s)
AtLeast95(s) == 100 * PrintableCount(s) >= 95 * Len(s)

\* What one candidate is worth: 100 as JSON, 85 when it is long enough for
\* its format and readable, 0 otherwise.
CandidateScore(m, Readable(_)) ==
  LET Of(d) ==
        IF JSONParse(d).ok THEN 100
        ELSE IF (10 * Len(d) > 11 * Len(val.s)
                  \/ (m \in {"decompressFromUTF16", "decompress"}
                        /\ 2 * Len(d) > Len(val.s)))
                /\ Readable(d)
             THEN 85
        ELSE 0
  IN  Of(lz[m].r.s)

\* The score of the first candidate worth more than 0, and 0 without one.
FirstPassing(Readable(_)) ==
  LET Passes(m) == CandidateScore(m, Readable) > 0
      First(passing) == IF passing = <<>> THEN 0
                        ELSE CandidateScore(Head(passing), Readable)
  IN  First(SelectSeq(Survivors, Passes))

\* C21: on a string of at least 20 characters without the signature, canDecode
\* returns the score of the first surviving candidate, in the order UTF16,
\* Base64, URI, generic, that is JSON (100) or that is longer than 1.1 times
\* the input (0.5 times for UTF16 and generic) and printable to more than 95%
\* (85); it returns 0 when no candidate is.
C21_CandidateOrder == LongUnsigned => call.score = FirstPassing(MoreThan95)

\* canDecode returned 0 although a candidate long enough for its format is
\* printable to 95% exactly.
C21_Witness ==
  /\ LongUnsigned
  /\ call.score = 0
  /\ \E i \in 1..Len(Survivors) :
       /\ CandidateScore(Survivors[i], AtLeast95) = 85
       /\ ~MoreThan95(lz[Survivors[i]].r.s)

\* C21 as stated: a candidate passes with a printable ratio of at least 95%.
C21_CandidateOrderAtLeast95 == LongUnsigned => call.score = FirstPassing(AtLeast95)

(***************************************************************************)
(* Properties of LZStringCodec.decode                                      *)
(***************************************************************************)
\* decode was called on the LZString codec.
LZDecoded == call.op = "decode" /\ call.codec = "lzstring" /\ IsString(val)

\* The variant m gives decode a result: its decompressor returned a non-empty
\* string other than the value that is JSON or readable text.
Usable(m) ==
  /\ Survivor(m)
  /\ \/ JSONParse(lz[m].r.s).ok
     \/ (Len(lz[m].r.s) >= 2 /\ MoreThan95(lz[m].r.s))

\* The variants that give decode a result, in the order they are tried.
UsableVariants == SelectSeq(LZMethods, Usable)

\* What decode makes of the output of the variant m.
Rendered(m) == PrettyOrSame(lz[m].r.s)

\* C22: decode returns what the first variant, in the order UTF16, Base64,
\* URI-component, generic, makes of the value when its output is non-empty,
\* differs from the value and is JSON (returned pretty-printed) or readable
\* text (returned as it is); variants that throw, return nothing or return
\* unreadable text are passed over, and without a usable variant decode
\* returns the value unchanged.
C22_DecodeOrder ==
  LZDecoded =>
    /\ call.ok
    /\ call.out = IF UsableVariants = <<>> THEN val.s ELSE Rendered(Head(UsableVariants))

\* decode passed over a first variant that threw or returned unreadable text
\* and returned the result of a later one.
C22_Witness ==
  /\ LZDecoded
  /\ UsableVariants # <<>>
  /\ Head(UsableVariants) # "decompressFromUTF16"
  /\ \/ ~lz["decompressFromUTF16"].ok
     \/ Survivor("decompressFromUTF16")
  /\ call.out = Rendered(Head(UsableVariants))
  /\ call.out # val.s

(***************************************************************************)
(* Properties relating LZStringCodec.canDecode and LZStringCodec.decode    *)
(***************************************************************************)
\* The candidate canDecode stops at: the first surviving variant that is
\* JSON or, for a value of 20 characters or more, passes the heuristic.
Passing(m) ==
  \/ CandidateScore(m, MoreThan95) = 100
  \/ (Len(val.s) >= 20 /\ CandidateScore(m, MoreThan95) = 85)
FoundVariant == Head(SelectSeq(Survivors, Passing))

\* C29: canDecode and decode of the LZString codec agree on every value: when
\* canDecode scores the value above 0, decode returns something other than the
\* value, and when canDecode scores it 100 on a variant that decompresses it to
\* JSON, decode returns that JSON pretty-printed.
C29_CanDecodeAgreesWithDecode ==
  LZDecoded =>
    /\ LZStringCodec_canDecode(val) # 0 => (call.ok /\ call.out # val.s)
    /\ LZStringCodec_canDecode(val) = 100 =>
         (call.ok /\ call.out = JSONStringifyPretty(JSONParse(lz[FoundVariant].r.s).v))

(***************************************************************************)
(* Properties of decoding in the worker                                    *)
(***************************************************************************)
\* The worker answered the request it handled last with a success.
WorkerSucceeded ==
  /\ worker.request # <<>> /\ worker.request[1].type = "DECODE"
  /\ InSeq(worker.request[1].codecName, CodecNames)
  /\ worker.posted # <<>> /\ worker.posted[1].success

\* The run i of onEdit has called editor.open for an item with a codec.
Opened(i) == tasks[i].codec # "null" /\ tasks[i].decoded # <<>>

\* C23: the worker path and the inline path open the same text: a success
\* reply of the worker carries what the codec's decode returns on the payload,
\* and the text a run of onEdit hands to the editor, from the worker or from
\* the fallback, is what the detected codec's decode returns on the item's value.
C23_WorkerOpensSameText ==
  /\ WorkerSucceeded =>
       worker.posted[1].result =
         <<decode(worker.request[1].codecName, worker.request[1].payload).s>>
  /\ \A i \in 1..Len(tasks) :
       Opened(i) => tasks[i].decoded = <<decode(tasks[i].codec, tasks[i].value).s>>

(***************************************************************************)
(* Properties of decodeAsync                                               *)
(***************************************************************************)
Settled(i) == tasks[i].promise \in {"resolved", "rejected"}

\* The reply of the worker to the request of the run i.
OwnReply(i) == Worker_onmessage("DECODE", tasks[i].value, tasks[i].codec)

\* A promise is pending with its listener registered and no call of resolve
\* or reject yet, or it was settled by one call, with the reply to its own
\* request, and its listener is gone.
OneReplyEach ==
  \A i \in 1..Len(tasks) :
    /\ tasks[i].promise = "pending" => (tasks[i].settles = 0 /\ InSeq(i, listeners))
    /\ Settled(i) =>
         /\ tasks[i].settles = 1
         /\ tasks[i].reply = OwnReply(i)
         /\ tasks[i].promise = (IF tasks[i].reply[1].success THEN "resolved" ELSE "rejected")
         /\ ~InSeq(i, listeners)

\* A settled promise stays as it is.
SettledForGood ==
  \A i \in 1..Len(tasks) : Settled(i) => tasks'[i] = tasks[i]

\* C24: when each call of decodeAsync is awaited before the next is made, every
\* call's promise is settled once, by the worker's reply to its own request
\* (resolved on success, rejected on failure), its listener is removed when it
\* settles, so that no listener of a finished call stays registered, and with
\* the worker running every pending promise does settle.
C24_OneReplyPerCall ==
  /\ []OneReplyEach
  /\ [][SettledForGood]_vars
  /\ \A i \in 1..MaxCalls :
       (Len(tasks) >= i /\ tasks[i].promise = "pending" /\ codecWorker = "loaded")
         ~> (Len(tasks) >= i /\ Settled(i))

\* Two calls made one after the other have both settled, each with the reply
\* to its own request, the replies differ, and no listener is left.
C24_Witness ==
  /\ Len(tasks) >= 2
  /\ Settled(1) /\ Settled(2)
  /\ tasks[1].reply = OwnReply(1) /\ tasks[2].reply = OwnReply(2)
  /\ tasks[1].reply # tasks[2].reply
  /\ listeners = <<>>

\* A reply is dispatched in this step: every listener registered runs on it
\* and settles the promise of its call with it.
EveryListenerFires ==
  DispatchesReply =>
    \A i \in 1..Len(tasks) :
      InSeq(i, listeners) =>
        /\ tasks'[i].promise \in {"resolved", "rejected"}
        /\ tasks'[i].reply = <<Head(outbox)>>
        /\ ~InSeq(i, listeners')

\* C25: with two calls of decodeAsync in flight on the shared worker, both
\* pending listeners run on the first reply, as listeners are not keyed by a
\* request: every reply dispatched settles the promise of every listener
\* registered, so that a call can resolve with the result of the other call.
C25_RepliesShared == [][EveryListenerFires]_vars

\* The second of two calls in flight together has resolved with the reply to
\* the first: the decoded text of the other item, not of its own.
C25_Witness ==
  /\ Len(tasks) >= 2
  /\ tasks[1].route = "worker" /\ tasks[2].route = "worker"
  /\ tasks[2].promise = "resolved"
  /\ tasks[2].reply = OwnReply(1)
  /\ tasks[2].reply # OwnReply(2)
  /\ tasks[2].decoded = <<decode(tasks[1].codec, tasks[1].value).s>>
  /\ tasks[2].decoded # <<decode(tasks[2].codec, tasks[2].value).s>>

\* The run i of onEdit called decodeAsync and still awaits it: no call of
\* resolve or reject, no inline decode in the catch block, no editor.open.
Waiting(i) ==
  /\ tasks[i].promise = "pending" /\ tasks[i].settles = 0
  /\ ~tasks[i].fallback
  /\ tasks[i].decoded = <<>>

\* A run that awaits decodeAsync moves on only in a step that dispatches a
\* reply of the worker.
OnlyAReplyResumes ==
  \A i \in 1..Len(tasks) :
    (tasks[i].promise = "pending" /\ ~DispatchesReply) => tasks'[i] = tasks[i]

\* C26: decodeAsync has no timeout, retry or cancellation: on a worker that
\* never posts a reply every call stays pending, its run of onEdit neither
\* decodes inline nor opens the editor, and nothing but a dispatched reply
\* ever resumes a waiting run.
C26_NoReplyNoSettlement ==
  /\ [](codecWorker = "failed" =>
          \A i \in 1..Len(tasks) : tasks[i].route = "worker" => Waiting(i))
  /\ [][codecWorker = "failed" => codecWorker' = "failed"]_vars
  /\ [][OnlyAReplyResumes]_vars

\* A call was made on a worker that does not answer: its request is queued,
\* no reply is to be dispatched, and the run of onEdit is waiting.
C26_Witness ==
  /\ codecWorker = "failed"
  /\ Len(tasks) = MaxCalls
  /\ tasks[1].route = "worker" /\ Waiting(1)
  /\ inbox # <<>> /\ outbox = <<>>
  /\ InSeq(1, listeners)
  /\ edit = NoEdit

(***************************************************************************)
(* Properties of the routing of onEdit                                     *)
(***************************************************************************)
\* The value of the run t has a detected codec and more than 100,000 characters.
LongEncoded(t) == t.codec # "null" /\ t.length > 100000

\* The routing of the run t of onEdit.
Routed(t) ==
  /\ t.codec = CodecManager_detect(JSString(t.value)).ret
  /\ IF LongEncoded(t)
     THEN t.route = "worker" /\ t.promise # "none"
     ELSE /\ t.route = "inline" /\ t.promise = "none"
          /\ t.decoded = <<IF t.codec = "null" THEN t.value
                           ELSE decode(t.codec, t.value).s>>

\* A step that starts a run of onEdit posts one request to the worker when the
\* value is long and encoded, and otherwise leaves the worker alone.
RequestWhenLong ==
  Len(tasks') > Len(tasks) =>
    IF LongEncoded(tasks'[Len(tasks')])
    THEN inbox' = Append(inbox, [type |-> "DECODE",
                                 payload |-> tasks'[Len(tasks')].value,
                                 codecName |-> tasks'[Len(tasks')].codec])
    ELSE inbox' = inbox /\ codecWorker' = codecWorker /\ listeners' = listeners

\* C27: a value with a detected codec is decoded through the worker exactly
\* when it is longer than 100,000 characters; a value of exactly 100,000
\* characters and every shorter value is decoded inline, and a value without a
\* detected codec posts no request to the worker.
C27_WorkerThreshold ==
  /\ [](\A i \in 1..Len(tasks) : Routed(tasks[i]))
  /\ [][RequestWhenLong]_vars

\* A value of exactly 100,000 characters with a detected codec was decoded
\* inline: the worker was not created and nothing was posted.
C27_Witness ==
  /\ Len(tasks) = 1
  /\ tasks[1].codec # "null" /\ tasks[1].length = 100000
  /\ tasks[1].route = "inline"
  /\ tasks[1].decoded = <<decode(tasks[1].codec, tasks[1].value).s>>
  /\ codecWorker = "null" /\ inbox = <<>> /\ listeners = <<>>
  /\ edit.open

(***************************************************************************)
(* Properties of the value a save writes                                   *)
(***************************************************************************)
\* The last EDITOR_SAVE message, and the values the popup wrote on it.
Saved == events # <<>> /\ events[1].type = "EDITOR_SAVE"
Written == SelectSeq(events, LAMBDA e : e.type = "write")

\* The last save was made from the decoded view of a window with a codec.
FromDecodedView == edit.codec # "null" /\ ~events[1].flag

\* A step of onEdit gives the save callback the codec detected for the value.
OpenedWithDetected ==
  (events' = events /\ edit' # edit) => edit'.codec = CodecManager_detect(val).ret

\* A save keeps the codec of the window, and writes what that codec's encode
\* made of the content when it comes from the decoded view, and the content
\* itself otherwise; a save whose encode throws writes nothing.
SavedWithCodecOfWindow ==
  events' # events =>
    /\ edit'.codec = edit.codec
    /\ IF edit.codec # "null" /\ ~events'[1].flag
       THEN Written' = (IF encode(edit.codec, events'[1].value).ok
                        THEN <<Event("write", edit.kind,
                                     encode(edit.codec, events'[1].value).s, FALSE)>>
                        ELSE <<>>)
       ELSE Written' = <<Event("write", edit.kind, events'[1].value, FALSE)>>
    /\ Written' # <<>> => val' = JSString(Written'[1].value)

NoOpSaved ==
  /\ events # <<>>
  /\ ~events[1].flag
  /\ edit.codec # "null"
  /\ call.op = "encode"
  /\ edit.item = edit.original
  /\ events[1].value = edit.decoded

\* The value now stored is the codec's encode of the text, it decodes to the
\* text again, and detect returns the same codec for it.
ContentKept ==
  /\ Len(events) = 3
  /\ events[2].type = "write"
  /\ events[2].value = val.s
  /\ encode(edit.codec, edit.decoded) = Returned(val.s)
  /\ decode(edit.codec, val.s) = Returned(edit.decoded)
  /\ CodecManager_detect(val).ret = edit.codec

\* C30: an edit that changes nothing keeps the content: for a stored value v
\* with detected codec c, saving the text as opened from the decoded view
\* stores c.encode(c.decode(v)), which decodes to c.decode(v) again and is
\* again detected as c.
C30_NoOpEditPreserves == NoOpSaved => ContentKept

(***************************************************************************)
(* Properties of saving an edited value                                    *)
(***************************************************************************)
\* The last save asked the codec of the window to encode, and encode threw.
SaveEncodeThrew ==
  /\ events # <<>>
  /\ edit.codec # "null"
  /\ ~events[1].flag
  /\ ~encode(edit.codec, events[1].value).ok

EventTypes == {events[i].type : i \in 1..Len(events)}

\* C8, as stated: when encode throws while an edited value is saved, no write
\* of the item is issued, an alert is raised, and the editor window is not
\* told that the save succeeded.
C8_EncodeFailureSurfaced ==
  SaveEncodeThrew =>
    /\ "write" \notin EventTypes
    /\ "alert" \in EventTypes
    /\ \A i \in 1..Len(events) : events[i].type = "response" => ~events[i].flag
    /\ edit.status # "Saved!"

====
